---- MODULE Spec2Model ----
(***************************************************************************)
(* Model of the chunked transfer pipeline of cmem-plugin-databus:          *)
(*   - the chunk iterator        (utils.py, byte_iterator_context_update)  *)
(*   - the WebDAV handler        (utils.py, WebDAVHandler)                 *)
(*   - the publisher plugin      (publisher.py, DatabusDeployPlugin)       *)
(*   - the loader plugin         (loader.py, SimpleDatabusLoadingPlugin)   *)
(*   - the helper functions     (utils.py, get_clock and                   *)
(*                                fetch_query_result_by_key)               *)
(*   - the autocompletions       (loader.py, ResourceParameterType,        *)
(*                                FacetSearch and DatabusFile)             *)
(* Strings are sequences of tokens, byte buffers are sequences over Bytes, *)
(* a slash-delimited path is the sequence of its segments (the result of   *)
(* str.split("/")), and an HTTP response is its status and its text.       *)
(*                                                                         *)
(* The servers are the environment: the WebDAV server answers HEAD with    *)
(* 405 on a collection that exists and 404 otherwise, MKCOL as RFC 4918    *)
(* says; a HEAD may also end in a RequestException, the one network error  *)
(* the code handles.  cmempy's get() behind get_streamed either raises for *)
(* a status >= 400 or hands the response back: both are modelled.          *)
(* iter_content(chunk_size) cuts a body into consecutive slices of         *)
(* chunk_size bytes.  The transfer runs (Spec, SpecUpload) are those of a  *)
(* plugin configured with a chunk size > 0; what the constructor lets      *)
(* through is in SpecCtor, what the chunk iterator does with any chunk     *)
(* size is in SpecIter.  SpecMetadata runs the publisher on a given source *)
(* dataset, SpecReexecute executes one publisher instance more than once,  *)
(* SpecAutocomplete calls the autocompletions on the answers of the        *)
(* services they ask.                                                      *)
(***************************************************************************)
EXTENDS Integers, Sequences, FiniteSets, TLC

\* ------------------------------------------------------------------ bounds
\* longest byte buffer
MaxLen == 3
\* largest chunk size
MaxChunk == 2
\* deepest directory part of a path given to the WebDAV handler directly
MaxDepth == 3

\* ------------------------------------------------------------ value domains
Bytes == {0, 1}

Buffers == UNION {[1..n -> Bytes] : n \in 0..MaxLen}

\* chunk sizes of a transfer (plugin parameter chunk_size)
ChunkSizes == 1..MaxChunk

\* the values the plugin parameter chunk_size can be given (an int, not validated)
ParameterChunkSizes == (-1)..MaxChunk

\* chunk sizes the bare chunk iterator is called with (any int)
IterChunkSizes == (-1)..(MaxChunk + 1)

DirNames == <<"a", "b", "c", "d", "e">>

FileName == "file.ttl"

\* the directory part a/b/c/... of depth d
DirPathOfDepth(d) == [i \in 1..d |-> DirNames[i]]

Min(a, b) == IF a < b THEN a ELSE b

Last(s) == s[Len(s)]

Prefixes(s, k) == {SubSeq(s, 1, i) : i \in 1..k}

\* s.rstrip(chars)
RECURSIVE RStrip(_, _)
RStrip(s, chars) ==
    IF s # <<>> /\ Last(s) \in chars THEN RStrip(SubSeq(s, 1, Len(s) - 1), chars)
    ELSE s

\* s.lstrip(chars)
RECURSIVE LStrip(_, _)
LStrip(s, chars) ==
    IF s # <<>> /\ Head(s) \in chars THEN LStrip(Tail(s), chars)
    ELSE s

\* s.strip(chars)
Strip(s, chars) == LStrip(RStrip(s, chars), chars)

\* index of the first sep in s, 0 if there is none
Find(s, sep) ==
    IF \E i \in 1..Len(s) : s[i] = sep
    THEN CHOOSE i \in 1..Len(s) : s[i] = sep /\ \A j \in 1..(i - 1) : s[j] # sep
    ELSE 0

RECURSIVE Flatten(_)
Flatten(chunks) ==
    IF chunks = <<>> THEN <<>> ELSE Head(chunks) \o Flatten(Tail(chunks))

\* ----------------------------------------------------------- get_clock
ClockSymbols == <<"12:00", "1:00", "2:00", "4:00", "5:00",
                  "6:00", "7:00", "8:00", "9:00", "11:00">>

DigitChars == <<"0", "1", "2", "3", "4", "5", "6", "7", "8", "9">>

\* the decimal digits of n >= 0, as characters
RECURSIVE DecimalDigits(_)
DecimalDigits(n) ==
    IF n < 10 THEN <<DigitChars[n + 1]>>
    ELSE Append(DecimalDigits(n \div 10), DigitChars[(n % 10) + 1])

\* repr(counter) of an int
repr(counter) ==
    IF counter < 0 THEN <<"-">> \o DecimalDigits(0 - counter) ELSE DecimalDigits(counter)

IsDigit(ch) == \E d \in 0..9 : DigitChars[d + 1] = ch

\* int(ch) of one character, a ValueError unless it is a digit
int(ch) == CHOOSE d \in 0..9 : DigitChars[d + 1] = ch

\* variant: the first character of the printed integer
FirstDigit(counter) == int(Head(repr(counter)))

\* int(repr(counter)[-1]): the last character of the printed integer, as a number
LastDigit(counter) == int(Last(repr(counter)))

get_clock(counter) == ClockSymbols[LastDigit(counter) + 1]

\* ------------------------------------------- byte_iterator_context_update
Million == 1000000

\* variant: the slice runs to the end of the buffer
SliceToEnd(data, i, j) == SubSeq(data, i + 1, Len(data))

\* data[i : j] for 0 <= i <= j
Slice(data, i, j) == SubSeq(data, i + 1, Min(j, Len(data)))

\* variant: the number of full chunks only
RangeLenFloor(stop, step) ==
    IF step > 0 THEN stop \div step ELSE 0

\* len(range(0, stop, step)), step # 0
RangeLen(stop, step) ==
    IF step > 0 THEN (stop + step - 1) \div step ELSE 0

\* [data[i : i + chunksize] for i in range(0, len(data), chunksize)]
ChunkList(d, chunksize) ==
    [k \in 1..RangeLen(Len(d), chunksize) |->
        Slice(d, (k - 1) * chunksize, (k - 1) * chunksize + chunksize)]

\* variant: the count is the bytes themselves
ChunkReportBytes(desc, i, chunksize) ==
    [operation_desc |-> desc, arg |-> <<get_clock(i)>>,
     entity_count |-> i * chunksize, error |-> <<>>]

\* the ExecutionReport passed to context.report.update before chunk i is yielded
ChunkReport(desc, i, chunksize) ==
    [operation_desc |-> desc, arg |-> <<get_clock(i)>>,
     entity_count |-> (i * chunksize) \div Million, error |-> <<>>]

\* ------------------------------------------------------------ HTTP / WebDAV
\* the text of a response that is not a file body: the server's page for the status
ResponseText(status) == <<status>>

NoExc ==
    [type |-> "none", msg |-> "", method |-> "", url |-> <<>>, status |-> 0,
     text |-> <<>>]

\* WebDAVException(resp)
WebDAVException(method, url, status) ==
    [type |-> "WebDAVException", msg |-> "Exception during WebDAV Request",
     method |-> method, url |-> url, status |-> status, text |-> ResponseText(status)]

PyException(type, msg) ==
    [type |-> type, msg |-> msg, method |-> "", url |-> <<>>, status |-> 0,
     text |-> <<>>]

Request(method, url, status) == [method |-> method, url |-> url, status |-> status]

Report(desc, arg, count, error) ==
    [operation_desc |-> desc, arg |-> arg, entity_count |-> count, error |-> error]

\* requests.head(...) in check_existence: the status, or 0 for a RequestException
\* (no answer within the 4 s timeout, connection refused, ...)
NoAnswer == 0

\* the URL of a directory: its segments and the trailing slash
DirUrl(segments) == segments \o <<"">>

\* variant: the file name is not cut off
ParentOfWhole(p) == p

\* path.rsplit("/", 1)[0]
ParentOf(p) == IF Len(p) > 1 THEN SubSeq(p, 1, Len(p) - 1) ELSE p

\* variant: 403 taken for success
DirStatusOkWith403(status) == status \in {200, 201, 403, 405}

\* variant: 405 not taken for success
DirStatusOkNo405(status) == status \in {200, 201}

\* the statuses create_dirs and upload_file_with_context take for success
DirStatusOk(status) == status \in {200, 201, 405}

\* ResponseStream.__init__, chunk_size default
ResponseStreamChunk == 1048576

\* ------------------------------------------------------- publisher constants
\* parts of the dataset artifact uri the publisher of the transfer runs was built with
Group == "a"

Artifact == "b"

\* f"{artifact}_{cv_string}.{self.fileformat}"
PublisherFile == "b_k=v.ttl"

\* the plugin parameter version, as its characters
Versions == {<<>>, <<" ">>, <<" ", " ">>, <<"c">>}

\* self.version.strip(" ") == ""
IsBlank(v) == Strip(v, {" "}) = <<>>

\* datetime.now()
Dates == {[year |-> 2026, month |-> 11, day |-> 4],
          [year |-> 2027, month |-> 1, day |-> 31]}

NoDate == [year |-> 0, month |-> 0, day |-> 0]

\* variant: no leading zero
Pad2None(n) == DecimalDigits(n)

\* %m, %d: two digits, with a leading zero
Pad2(n) == IF n < 10 THEN <<"0">> \o DecimalDigits(n) ELSE DecimalDigits(n)

\* date.strftime("%Y.%m.%d")
strftime(date) ==
    DecimalDigits(date.year) \o <<".">> \o Pad2(date.month) \o <<".">> \o Pad2(date.day)

GetStatuses == {200, 400, 404}

PutStatuses == {201, 204, 400, 403}

VARIABLES
    mode,               \* the entry point of the run
    pc,                 \* the position of the run
    chunk_size,         \* self.chunk_size / chunk_size argument
    data,               \* the buffer given to the chunk iterator / the upload
    path,               \* the target path, as its segments
    create_parent_dirs, \* argument of upload_file_with_context
    dirs,               \* the directories on the WebDAV server
    current_path,       \* create_dirs: number of segments of current_path
    responses,          \* create_dirs: statuses of the MKCOL responses so far
    gen,                \* the chunk generator: "none", "created", "running", "done"
    gen_i,              \* the chunk generator: index i of the next chunk
    body,               \* the chunks yielded so far (the body of the upload)
    put_status,         \* status of the upload response, 0 before it
    reports,            \* the calls of context.report.update, in order
    log,                \* the HTTP requests issued, in order
    exc,                \* the exception that left the run, NoExc if none
    version,            \* publisher: self.version
    today,              \* the date datetime.now() gives
    src,                \* the body of the response to the source GET
    get_status,         \* status of the response to the source GET, 0 before it
    rx,                 \* chunks of the source response consumed so far
    summary,            \* publisher: the local list summary
    warnings,           \* publisher: the local list warnings
    deployed,           \* publisher: the version ids deploy(dataset, api_key) was called with
    target,             \* what the upload's target holds
    uri,                \* constructor argument dataset_artifact_uri, as its tokens
    cvs,                \* constructor argument cvs, as its tokens
    plugin,             \* the attributes __init__ has set, NoPlugin before it
    args,               \* the arguments of a call of a helper function
    result              \* what that call has returned or raised, NoResult before it

vars == <<mode, pc, chunk_size, data, path, create_parent_dirs, dirs, current_path,
          responses, gen, gen_i, body, put_status, reports, log, exc,
          version, today, src, get_status, rx, summary, warnings, deployed, target,
          uri, cvs, plugin, args, result>>

\* variable groups
genVars == <<gen, gen_i, body>>

davVars == <<dirs, current_path, responses, put_status>>

pubVars == <<version, today, summary, warnings, deployed>>

srcVars == <<src, get_status, rx>>

cfgVars == <<mode, chunk_size, create_parent_dirs, uri, cvs, plugin>>

NoTarget == [exists |-> FALSE, content |-> <<>>]

NoPlugin == [dataset_artifact_uri |-> <<>>, identifier |-> <<>>, cvs |-> <<>>]

callVars == <<args, result>>

NoResult == [raised |-> "", value |-> <<>>]

\* the run is not about the constructor
NoCtor == uri = <<>> /\ cvs = <<>> /\ plugin = NoPlugin

\* the run is not a call of a helper function
NoCall == args = <<>> /\ result = NoResult

\* ---------------------------------------------------------- chunk generator
\* One next() on the generator of byte_iterator_context_update(data, context,
\* chunksize, desc): the list of slices is built on the first next(), then each
\* next() updates the report and yields slice i.
GenHasNext == gen_i < RangeLen(Len(data), chunk_size)

GenYield(desc) ==
    /\ gen \in {"created", "running"}
    /\ chunk_size # 0
    /\ GenHasNext
    /\ reports' = Append(reports, ChunkReport(desc, gen_i, chunk_size))
    /\ body' = Append(body, ChunkList(data, chunk_size)[gen_i + 1])
    /\ gen_i' = gen_i + 1
    /\ gen' = "running"

\* next() finds the list exhausted: StopIteration
GenStop ==
    /\ gen \in {"created", "running"}
    /\ chunk_size # 0
    /\ ~GenHasNext
    /\ gen' = "done"
    /\ UNCHANGED <<reports, body, gen_i>>

\* range() arg 3 must not be zero
GenValueError ==
    /\ gen = "created"
    /\ chunk_size = 0
    /\ gen' = "done"
    /\ exc' = PyException("ValueError", "range() arg 3 must not be zero")
    /\ UNCHANGED <<reports, body, gen_i>>

\* ------------------------------------------- the chunk iterator on its own
InitIter ==
    /\ mode = "iter"
    /\ pc = "iterating"
    /\ chunk_size \in IterChunkSizes
    /\ data \in Buffers
    /\ path = <<>>
    /\ create_parent_dirs = FALSE
    /\ dirs = {}
    /\ current_path = 0
    /\ responses = <<>>
    /\ gen = "created"
    /\ gen_i = 0
    /\ body = <<>>
    /\ put_status = 0
    /\ reports = <<>>
    /\ log = <<>>
    /\ exc = NoExc
    /\ version = <<>> /\ today = NoDate /\ src = <<>> /\ get_status = 0 /\ rx = 0
    /\ summary = <<>> /\ warnings = <<>> /\ deployed = <<>> /\ target = NoTarget
    /\ NoCtor /\ NoCall

IterNext ==
    /\ mode = "iter" /\ pc = "iterating"
    /\ GenYield("Uploading File")
    /\ UNCHANGED <<cfgVars, callVars, pc, data, path, davVars, log, exc, pubVars, srcVars, target>>

IterStop ==
    /\ mode = "iter" /\ pc = "iterating"
    /\ GenStop
    /\ pc' = "returned"
    /\ UNCHANGED <<cfgVars, callVars, data, path, davVars, log, exc, pubVars, srcVars, target>>

IterValueError ==
    /\ mode = "iter" /\ pc = "iterating"
    /\ GenValueError
    /\ pc' = "raised"
    /\ UNCHANGED <<cfgVars, callVars, data, path, davVars, log, pubVars, srcVars, target>>

NextIter == IterNext \/ IterStop \/ IterValueError

SpecIter == InitIter /\ [][NextIter]_vars

\* the consumer of the iterator (requests.put reading its data argument) asks for
\* the next chunk until the iterator stops
FairSpecIter == InitIter /\ [][NextIter]_vars /\ WF_vars(NextIter)

\* ------------------------------------------------------------ the WebDAV server
\* what the server answers to HEAD on a directory URL; the request may also end in a
\* RequestException (NoAnswer)
HeadAnswers(segments) ==
    {IF segments \in dirs THEN 405 ELSE 404, NoAnswer}

\* what the server answers to MKCOL: 405 on a collection that exists, 409 without
\* the parent collection, else it creates the collection (200/201) or refuses
MkcolAnswers(segments) ==
    IF segments \in dirs THEN {405}
    ELSE IF Len(segments) > 1 /\ SubSeq(segments, 1, Len(segments) - 1) \notin dirs
         THEN {409}
         ELSE {200, 201, 403, 500}

MkcolCreates(status) == status \in {200, 201}

\* ------------------------------------------------------------- WebDAVHandler
\* variant: status 200 taken for "exists"
check_existence_200(answer) ==
    IF answer = NoAnswer THEN FALSE ELSE answer = 200

\* variant: a RequestException counts as "exists"
check_existence_lenient(answer) ==
    IF answer = NoAnswer THEN TRUE ELSE answer = 405

\* check_existence: False on a RequestException, else status_code == 405
check_existence(answer) ==
    IF answer = NoAnswer THEN FALSE ELSE answer = 405

\* dirs = path.split("/") of create_dirs(dirpath)
DirSegments == ParentOf(path)

CurrentSegments == SubSeq(DirSegments, 1, current_path)

\* where upload_file_with_context returns to
AfterUpload == IF mode = "publisher" THEN "pub_check" ELSE "returned"

\* upload_file_with_context, up to the call of create_dirs: the generator object is
\* made (none of its code runs yet)
upload_file_with_context ==
    /\ pc = "upload"
    /\ gen' = "created" /\ gen_i' = 0 /\ body' = <<>>
    /\ current_path' = 0 /\ responses' = <<>>
    /\ pc' = IF create_parent_dirs THEN "dirs" ELSE "put"
    /\ UNCHANGED <<cfgVars, callVars, data, path, dirs, put_status, reports, log, exc,
                   pubVars, srcVars, target>>

\* variant: the directory is created whatever the probe says
create_dirs_probe_always_create ==
    /\ pc = "dirs"
    /\ current_path < Len(DirSegments)
    /\ current_path' = current_path + 1
    /\ \E answer \in HeadAnswers(SubSeq(DirSegments, 1, current_path + 1)) :
          /\ log' = Append(log, Request("HEAD",
                        DirUrl(SubSeq(DirSegments, 1, current_path + 1)), answer))
          /\ pc' = "mkcol"
    /\ UNCHANGED <<cfgVars, callVars, data, path, dirs, responses, put_status, genVars,
                   reports, exc, pubVars, srcVars, target>>

\* create_dirs, one turn of the loop: current_path grows by a segment and
\* check_existence probes it
create_dirs_probe ==
    /\ pc = "dirs"
    /\ current_path < Len(DirSegments)
    /\ current_path' = current_path + 1
    /\ \E answer \in HeadAnswers(SubSeq(DirSegments, 1, current_path + 1)) :
          /\ log' = Append(log, Request("HEAD",
                        DirUrl(SubSeq(DirSegments, 1, current_path + 1)), answer))
          /\ pc' = IF check_existence(answer) THEN "dirs" ELSE "mkcol"
    /\ UNCHANGED <<cfgVars, callVars, data, path, dirs, responses, put_status, genVars,
                   reports, exc, pubVars, srcVars, target>>

\* variant: create_dirs only collects the responses and leaves the check of the
\* last one to its caller
create_dir_collect ==
    /\ pc = "mkcol"
    /\ \E status \in MkcolAnswers(CurrentSegments) :
          /\ log' = Append(log, Request("MKCOL", DirUrl(CurrentSegments), status))
          /\ dirs' = IF MkcolCreates(status) THEN dirs \cup {CurrentSegments} ELSE dirs
          /\ responses' = Append(responses, status)
    /\ pc' = "dirs"
    /\ UNCHANGED <<cfgVars, callVars, data, path, current_path, put_status, genVars,
                   reports, exc, pubVars, srcVars, target>>

\* variant: a refused MKCOL removes the directories created before it in the call
create_dir_rollback ==
    /\ pc = "mkcol"
    /\ \E status \in MkcolAnswers(CurrentSegments) :
          /\ responses' = Append(responses, status)
          /\ IF DirStatusOk(status)
             THEN /\ log' = Append(log, Request("MKCOL", DirUrl(CurrentSegments), status))
                  /\ dirs' = IF MkcolCreates(status) THEN dirs \cup {CurrentSegments}
                                                     ELSE dirs
                  /\ pc' = "dirs" /\ exc' = exc
             ELSE /\ log' = log \o <<Request("MKCOL", DirUrl(CurrentSegments), status),
                                     Request("DELETE", DirUrl(SubSeq(DirSegments, 1, 1)), 204)>>
                  /\ dirs' = dirs \ {SubSeq(DirSegments, 1, k) : k \in
                                 {i \in 1..current_path :
                                    \E j \in 1..Len(log) :
                                       /\ log[j].method = "MKCOL"
                                       /\ log[j].url = DirUrl(SubSeq(DirSegments, 1, i))
                                       /\ MkcolCreates(log[j].status)}}
                  /\ pc' = "raised"
                  /\ exc' = WebDAVException("MKCOL", DirUrl(CurrentSegments), status)
    /\ UNCHANGED <<cfgVars, callVars, data, path, current_path, put_status, genVars,
                   reports, pubVars, srcVars, target>>

\* create_dirs, the rest of the turn: create_dir(current_path), the response is
\* appended, and a status not in [200, 201, 405] raises WebDAVException
create_dir ==
    /\ pc = "mkcol"
    /\ \E status \in MkcolAnswers(CurrentSegments) :
          /\ log' = Append(log, Request("MKCOL", DirUrl(CurrentSegments), status))
          /\ dirs' = IF MkcolCreates(status) THEN dirs \cup {CurrentSegments} ELSE dirs
          /\ responses' = Append(responses, status)
          /\ IF DirStatusOk(status)
             THEN pc' = "dirs" /\ exc' = exc
             ELSE /\ pc' = "raised"
                  /\ exc' = WebDAVException("MKCOL", DirUrl(CurrentSegments), status)
    /\ UNCHANGED <<cfgVars, callVars, data, path, current_path, put_status, genVars,
                   reports, pubVars, srcVars, target>>

\* create_dirs returns its responses; upload_file_with_context looks at the last one
create_dirs_return ==
    /\ pc = "dirs"
    /\ current_path = Len(DirSegments)
    /\ IF responses # <<>> /\ ~DirStatusOk(Last(responses))
       THEN /\ pc' = "raised"
            /\ exc' = WebDAVException("MKCOL", DirUrl(CurrentSegments), Last(responses))
       ELSE pc' = "put" /\ exc' = exc
    /\ UNCHANGED <<cfgVars, callVars, data, path, davVars, genVars, reports, log,
                   pubVars, srcVars, target>>

\* requests.put(url, data=context_data_generator, stream=True): the request starts
put_send ==
    /\ pc = "put"
    /\ log' = Append(log, Request("PUT", path, 0))
    /\ pc' = "put_body"
    /\ UNCHANGED <<cfgVars, callVars, data, path, davVars, genVars, reports, exc,
                   pubVars, srcVars, target>>

\* requests.put pulls the next chunk from the generator and sends it
put_chunk ==
    /\ pc = "put_body"
    /\ GenYield("Uploading File")
    /\ UNCHANGED <<cfgVars, callVars, pc, data, path, davVars, log, exc, pubVars, srcVars, target>>

\* the generator is exhausted, the server answers the PUT
put_response ==
    /\ pc = "put_body"
    /\ GenStop
    /\ \E status \in PutStatuses :
          /\ put_status' = status
          /\ log' = [log EXCEPT ![Len(log)].status = status]
          /\ target' = IF status < 400
                       THEN [exists |-> TRUE, content |-> Flatten(body)]
                       ELSE target
    /\ pc' = AfterUpload
    /\ UNCHANGED <<cfgVars, callVars, data, path, dirs, current_path, responses, exc,
                   pubVars, srcVars>>

\* a direct call of WebDAVHandler.upload_file_with_context(path, data, context,
\* chunk_size, create_parent_dirs)
InitUpload ==
    /\ mode = "upload"
    /\ pc = "upload"
    /\ chunk_size \in ChunkSizes
    /\ data \in Buffers
    /\ \E d \in 0..MaxDepth :
          /\ path = DirPathOfDepth(d) \o <<FileName>>
          /\ \E k \in 0..d : dirs = Prefixes(DirPathOfDepth(d), k)
    /\ create_parent_dirs \in BOOLEAN
    /\ current_path = 0 /\ responses = <<>>
    /\ gen = "none" /\ gen_i = 0 /\ body = <<>>
    /\ put_status = 0 /\ reports = <<>> /\ log = <<>> /\ exc = NoExc
    /\ version = <<>> /\ today = NoDate /\ src = <<>> /\ get_status = 0 /\ rx = 0
    /\ summary = <<>> /\ warnings = <<>> /\ deployed = <<>> /\ target = NoTarget
    /\ NoCtor /\ NoCall

NextUpload ==
    \/ upload_file_with_context
    \/ create_dirs_probe
    \/ create_dir
    \/ create_dirs_return
    \/ put_send
    \/ put_chunk
    \/ put_response

SpecUpload == InitUpload /\ [][NextUpload]_vars


\* ---------------------------------------------------- DatabusDeployPlugin.execute
\* __get_identifier_from_artifact of the publisher of the transfer runs
DatabusBase == "https://databus.example.org"

User == "u"

SourceUrl == <<"source">>

\* f"{group}/{artifact}/{self.version}/{artifact}_{cv_string}.{self.fileformat}"
file_target_path(v) == <<Group, Artifact, v, PublisherFile>>

\* f"{databus_base}/{user}/{group}/{artifact}/{self.version}"
version_id(v) == <<DatabusBase, User, Group, Artifact, v>>

\* the version the run publishes under
EffectiveVersion(v, date) == IF IsBlank(v) THEN strftime(date) ELSE v

InitPublisher ==
    /\ mode = "publisher"
    /\ pc = "pub_version"
    /\ chunk_size \in ChunkSizes
    /\ version \in Versions
    /\ today \in Dates
    /\ \E k \in 0..3 :
          dirs = Prefixes(<<Group, Artifact, EffectiveVersion(version, today)>>, k)
    /\ create_parent_dirs = TRUE
    /\ data = <<>> /\ path = <<>>
    /\ current_path = 0 /\ responses = <<>>
    /\ gen = "none" /\ gen_i = 0 /\ body = <<>>
    /\ put_status = 0 /\ reports = <<>> /\ log = <<>> /\ exc = NoExc
    /\ src = <<>> /\ get_status = 0 /\ rx = 0
    /\ summary = <<>> /\ warnings = <<>> /\ deployed = <<>> /\ target = NoTarget
    /\ NoCtor /\ NoCall

\* execute, lines 190-203: a blank version becomes today's date, then the first report
pub_version ==
    /\ pc = "pub_version"
    /\ IF IsBlank(version)
       THEN /\ version' = strftime(today)
            /\ summary' = Append(summary,
                   [label |-> "Version automatically set to", value |-> version'])
            /\ warnings' = Append(warnings,
                   [label |-> "Version not hardcoded, automatically set to",
                    value |-> version'])
       ELSE UNCHANGED <<version, summary, warnings>>
    /\ reports' = Append(reports,
           Report("Started deploy of version", version', 0, <<>>))
    /\ pc' = "pub_metadata"
    /\ UNCHANGED <<cfgVars, callVars, data, path, davVars, genVars, log, exc, today, deployed,
                   srcVars, target>>

\* what get_task answers with for the source dataset: the graph parameter, the label
\* and the description are there (a sequence of one value) or not (the empty sequence)
TaskMetadata ==
    [graph : {<<>>, <<"g">>},
     label : {<<>>, <<<<>>>>, <<<<" ", "\n">>>>, <<<<"t">>>>},
     description : {<<>>, <<<<>>>>, <<<<" ">>>>, <<<<"d", ".", "e", ".">>>>, <<<<"d">>>>}]

\* the characters str.strip() removes
Whitespace == {" ", "\n", "\t"}

\* _generate_abstract_from_description: the description up to its first ".", all of
\* it when it has none
generate_abstract_from_description(description) ==
    IF Find(description, ".") = 0 THEN description
    ELSE SubSeq(description, 1, Find(description, "."))

\* MissingMetadataException(f"CMEM task {task_id}", metadata_label)
MissingMetadataException(metadata_label) ==
    [raised |-> "MissingMetadataException", value |-> <<metadata_label>>]

\* str(mm_exception), as the words that vary
MissingMetadataMessage(e) == <<e.raised>> \o e.value

\* variant: only absent values are missing, blank ones pass
fetch_graph_metadata_absent_only(m) ==
    IF m.graph = <<>> THEN MissingMetadataException("graph")
    ELSE IF m.label = <<>> THEN MissingMetadataException("label")
    ELSE IF m.description = <<>> THEN MissingMetadataException("description")
    ELSE [raised |-> "",
          value |-> <<m.graph[1], m.label[1],
                      generate_abstract_from_description(m.description[1]),
                      m.description[1]>>]

\* __fetch_graph_metadata: KeyError at the first of graph, label, description that is
\* not there, then the label and the description must not strip() to ""
fetch_graph_metadata(m) ==
    IF m.graph = <<>> THEN MissingMetadataException("graph")
    ELSE IF m.label = <<>> THEN MissingMetadataException("label")
    ELSE IF m.description = <<>> THEN MissingMetadataException("description")
    ELSE IF Strip(m.label[1], Whitespace) = <<>> THEN MissingMetadataException("label")
    ELSE IF Strip(m.description[1], Whitespace) = <<>>
         THEN MissingMetadataException("description")
    ELSE [raised |-> "",
          value |-> <<m.graph[1], m.label[1],
                      generate_abstract_from_description(m.description[1]),
                      m.description[1]>>]

\* the task of the run: the one in args when the run was started on a given task,
\* else whatever get_task answers with at the time of the call
TaskOfRun == IF args = <<>> THEN TaskMetadata ELSE {args[1]}

\* variant: MissingMetadataException is not caught
pub_metadata_uncaught ==
    /\ pc = "pub_metadata"
    /\ \E missing \in {"none", "graph", "label", "description"} :
          IF missing # "none"
          THEN /\ pc' = "raised"
               /\ exc' = PyException("MissingMetadataException", missing)
               /\ path' = path
          ELSE /\ path' = file_target_path(version)
               /\ pc' = "pub_get"
               /\ exc' = exc
    /\ UNCHANGED <<cfgVars, callVars, data, davVars, genVars, reports, log, pubVars, srcVars, target>>

\* execute, lines 204-224: __fetch_graph_metadata raises MissingMetadataException (the
\* error is reported and execute returns) or gives the metadata, and the target path
\* is put together
pub_metadata ==
    /\ pc = "pub_metadata"
    /\ \E m \in TaskOfRun :
          IF fetch_graph_metadata(m).raised # ""
          THEN /\ reports' = Append(reports,
                      Report("", <<>>, 0, MissingMetadataMessage(fetch_graph_metadata(m))))
               /\ pc' = "returned"
               /\ path' = path
          ELSE /\ path' = file_target_path(version)
               /\ pc' = "pub_get"
               /\ reports' = reports
    /\ UNCHANGED <<cfgVars, callVars, data, davVars, genVars, log, exc, pubVars, srcVars, target>>

\* execute, line 228: get_streamed(graph_uri); cmempy's request may raise for a
\* status >= 400 or hand the response back, the source under src/ checks no status
pub_get ==
    /\ pc = "pub_get"
    /\ \E status \in GetStatuses, b \in Buffers, raises \in BOOLEAN :
          /\ raises => status >= 400
          /\ get_status' = status
          /\ src' = b
          /\ log' = Append(log, Request("GET", SourceUrl, status))
          /\ IF raises
             THEN pc' = "raised" /\ exc' = PyException("HTTPError", "")
             ELSE pc' = "pub_recv" /\ exc' = exc
    /\ rx' = 0
    /\ data' = <<>>
    /\ UNCHANGED <<cfgVars, callVars, path, davVars, genVars, reports, pubVars, target>>

\* variant: the chunk is put in front of the buffer
pub_recv_chunk_prepend ==
    /\ pc = "pub_recv"
    /\ rx < RangeLen(Len(src), chunk_size)
    /\ data' = Slice(src, rx * chunk_size, rx * chunk_size + chunk_size) \o data
    /\ reports' = Append(reports,
           Report("Get graph stream", <<get_clock(rx)>>, Len(data') \div Million, <<>>))
    /\ rx' = rx + 1
    /\ UNCHANGED <<cfgVars, callVars, pc, path, davVars, genVars, log, exc, pubVars,
                   src, get_status, target>>

\* variant: a report only when the count of megabytes has changed
pub_recv_chunk_quiet ==
    /\ pc = "pub_recv"
    /\ rx < RangeLen(Len(src), chunk_size)
    /\ data' = data \o Slice(src, rx * chunk_size, rx * chunk_size + chunk_size)
    /\ reports' = IF Len(data') \div Million # Len(data) \div Million
                  THEN Append(reports, Report("Get graph stream", <<get_clock(rx)>>,
                                              Len(data') \div Million, <<>>))
                  ELSE reports
    /\ rx' = rx + 1
    /\ UNCHANGED <<cfgVars, callVars, pc, path, davVars, genVars, log, exc, pubVars,
                   src, get_status, target>>

\* execute, lines 229-238: one chunk of resp.iter_content(chunk_size) is appended to
\* data and reported
pub_recv_chunk ==
    /\ pc = "pub_recv"
    /\ rx < RangeLen(Len(src), chunk_size)
    /\ data' = data \o Slice(src, rx * chunk_size, rx * chunk_size + chunk_size)
    /\ reports' = Append(reports,
           Report("Get graph stream", <<get_clock(rx)>>, Len(data') \div Million, <<>>))
    /\ rx' = rx + 1
    /\ UNCHANGED <<cfgVars, callVars, pc, path, davVars, genVars, log, exc, pubVars,
                   src, get_status, target>>

\* execute, lines 240-254: the stream is at its end; checksum, size, report, and the
\* call of upload_file_with_context(create_parent_dirs=True)
pub_buffered ==
    /\ pc = "pub_recv"
    /\ rx >= RangeLen(Len(src), chunk_size)
    /\ summary' = summary \o
           <<[label |-> "File sha256sum", value |-> data],
             [label |-> "File size (bytes)", value |-> <<Len(data)>>]>>
    /\ reports' = Append(reports, Report("Uploading file to", path, 0, <<>>))
    /\ pc' = "upload"
    /\ UNCHANGED <<cfgVars, callVars, data, path, davVars, genVars, log, exc,
                   version, today, warnings, deployed, srcVars, target>>

\* variant: 400 itself passes
UploadFailedAbove400(status) == status > 400

\* upload_resp.status_code >= 400
UploadFailed(status) == status >= 400

\* execute, lines 255-260
pub_check ==
    /\ pc = "pub_check"
    /\ IF UploadFailed(put_status)
       THEN /\ pc' = "raised"
            /\ exc' = WebDAVException("PUT", path, put_status)
            /\ reports' = reports
       ELSE /\ pc' = "pub_deploy"
            /\ exc' = exc
            /\ reports' = Append(reports,
                   Report("WebDAV Upload Successful", <<>>, 0, <<>>))
    /\ UNCHANGED <<cfgVars, callVars, data, path, davVars, genVars, log, pubVars, srcVars, target>>

\* execute, lines 262-281: the dataset is put together and deployed; deploy raises
\* when the Databus refuses it
pub_deploy ==
    /\ pc = "pub_deploy"
    /\ deployed' = Append(deployed, version_id(version))
    /\ \E accepted \in BOOLEAN :
          IF accepted
          THEN /\ reports' = Append(reports,
                      Report("Deployment Successful", <<>>, 0, <<>>))
               /\ pc' = "returned"
               /\ exc' = exc
          ELSE /\ reports' = reports
               /\ pc' = "raised"
               /\ exc' = PyException("DeployError", "")
    /\ UNCHANGED <<cfgVars, callVars, data, path, davVars, genVars, log,
                   version, today, summary, warnings, srcVars, target>>

\* ----------------------------------------------- SimpleDatabusLoadingPlugin.execute
ResourceUrl == <<"resource">>

InitLoader ==
    /\ mode = "loader"
    /\ pc = "ld_get"
    /\ chunk_size \in ChunkSizes
    /\ target \in {NoTarget, [exists |-> TRUE, content |-> <<0>>]}
    /\ create_parent_dirs = FALSE
    /\ dirs = {}
    /\ data = <<>> /\ path = <<>>
    /\ current_path = 0 /\ responses = <<>>
    /\ gen = "none" /\ gen_i = 0 /\ body = <<>>
    /\ put_status = 0 /\ reports = <<>> /\ log = <<>> /\ exc = NoExc
    /\ version = <<>> /\ today = NoDate
    /\ src = <<>> /\ get_status = 0 /\ rx = 0
    /\ summary = <<>> /\ warnings = <<>> /\ deployed = <<>>
    /\ NoCtor /\ NoCall

\* databus_file_resp.status_code > 400
DownloadFailed(status) == status > 400

\* execute, lines 308-324: the source GET and the check of its status
ld_get ==
    /\ pc = "ld_get"
    /\ \E status \in GetStatuses, b \in Buffers :
          /\ get_status' = status
          /\ src' = b
          /\ log' = Append(log, Request("GET", SourceUrl, status))
          /\ IF DownloadFailed(status)
             THEN /\ reports' = Append(reports, Report("Download Failed", <<>>, 0, b))
                  /\ pc' = "returned"
             ELSE /\ reports' = reports
                  /\ pc' = "ld_upload"
    /\ rx' = 0
    /\ UNCHANGED <<cfgVars, callVars, data, path, davVars, genVars, exc, pubVars, target>>

\* execute, line 326: create_resource(..., file_resource=ResponseStream(resp),
\* replace=True) starts its request
ld_create_resource ==
    /\ pc = "ld_upload"
    /\ log' = Append(log, Request("POST", ResourceUrl, 0))
    /\ pc' = "ld_stream"
    /\ UNCHANGED <<cfgVars, callVars, data, path, davVars, genVars, reports, exc, pubVars,
                   srcVars, target>>

\* ResponseStream._read: the next chunk of response.iter_content(self.chunk_size) is
\* passed through to the upload
ld_stream_chunk ==
    /\ pc = "ld_stream"
    /\ rx < RangeLen(Len(src), ResponseStreamChunk)
    /\ body' = Append(body,
           Slice(src, rx * ResponseStreamChunk, rx * ResponseStreamChunk + ResponseStreamChunk))
    /\ rx' = rx + 1
    /\ UNCHANGED <<cfgVars, callVars, pc, data, path, davVars, gen, gen_i, reports, log, exc,
                   pubVars, src, get_status, target>>

\* the upload check with status 400 taken for a success
ld_upload_response_lenient ==
    /\ pc = "ld_stream"
    /\ rx >= RangeLen(Len(src), ResponseStreamChunk)
    /\ \E status \in PutStatuses :
          /\ put_status' = status
          /\ log' = [log EXCEPT ![Len(log)].status = status]
          /\ IF status <= 400
             THEN /\ target' = [exists |-> TRUE, content |-> Flatten(body)]
                  /\ reports' = Append(reports,
                         Report("Download Successful", <<>>, 1, <<>>))
             ELSE /\ target' = target
                  /\ reports' = Append(reports,
                         Report("Download Failed", <<>>, 0, ResponseText(status)))
    /\ pc' = "returned"
    /\ UNCHANGED <<cfgVars, callVars, data, path, dirs, current_path, responses, genVars, exc,
                   pubVars, srcVars>>

\* execute, lines 332-345: the upload's response and the final report
ld_upload_response ==
    /\ pc = "ld_stream"
    /\ rx >= RangeLen(Len(src), ResponseStreamChunk)
    /\ \E status \in PutStatuses :
          /\ put_status' = status
          /\ log' = [log EXCEPT ![Len(log)].status = status]
          /\ IF status < 400
             THEN /\ target' = [exists |-> TRUE, content |-> Flatten(body)]
                  /\ reports' = Append(reports,
                         Report("Download Successful", <<>>, 1, <<>>))
             ELSE /\ target' = target
                  /\ reports' = Append(reports,
                         Report("Download Failed", <<>>, 0, ResponseText(status)))
    /\ pc' = "returned"
    /\ UNCHANGED <<cfgVars, callVars, data, path, dirs, current_path, responses, genVars, exc,
                   pubVars, srcVars>>

\* ------------------------------------------------------------ the transfer runs
Init == InitPublisher \/ InitLoader

Next ==
    \/ pub_version
    \/ pub_metadata
    \/ pub_get
    \/ pub_recv_chunk
    \/ pub_buffered
    \/ upload_file_with_context
    \/ create_dirs_probe
    \/ create_dir
    \/ create_dirs_return
    \/ put_send
    \/ put_chunk
    \/ put_response
    \/ pub_check
    \/ pub_deploy
    \/ ld_get
    \/ ld_create_resource
    \/ ld_stream_chunk
    \/ ld_upload_response

Spec == Init /\ [][Next]_vars

\* ------------------------------------- publisher runs on a given source dataset
\* execute of a publisher with a version, on the task args[1] as source dataset, the
\* directories of group and artifact being on the server
InitMetadata ==
    /\ mode = "publisher"
    /\ pc = "pub_version"
    /\ chunk_size \in ChunkSizes
    /\ version = <<"c">>
    /\ today \in Dates
    /\ \E k \in {2, 3} : dirs = Prefixes(<<Group, Artifact, version>>, k)
    /\ create_parent_dirs = TRUE
    /\ data = <<>> /\ path = <<>>
    /\ current_path = 0 /\ responses = <<>>
    /\ gen = "none" /\ gen_i = 0 /\ body = <<>>
    /\ put_status = 0 /\ reports = <<>> /\ log = <<>> /\ exc = NoExc
    /\ src = <<>> /\ get_status = 0 /\ rx = 0
    /\ summary = <<>> /\ warnings = <<>> /\ deployed = <<>> /\ target = NoTarget
    /\ NoCtor
    /\ args \in {<<m>> : m \in TaskMetadata}
    /\ result = NoResult

NextMetadata ==
    \/ pub_version
    \/ pub_metadata
    \/ pub_get
    \/ pub_recv_chunk
    \/ pub_buffered
    \/ upload_file_with_context
    \/ create_dirs_probe
    \/ create_dir
    \/ create_dirs_return
    \/ put_send
    \/ put_chunk
    \/ put_response
    \/ pub_check
    \/ pub_deploy

SpecMetadata == InitMetadata /\ [][NextMetadata]_vars

\* ------------------------------------- one publisher instance executed repeatedly
\* most executes of one plugin instance
MaxExecutes == 2

\* d is the day of today or a later one
NotBefore(d, day) ==
    \/ d.year > day.year
    \/ d.year = day.year /\ d.month > day.month
    \/ d.year = day.year /\ d.month = day.month /\ d.day >= day.day

\* a publisher instance that was constructed with the version args[2], before its
\* first execute on the source dataset args[1]; the directories of the target are on
\* the server
InitReexecute ==
    /\ mode = "publisher"
    /\ pc = "pub_version"
    /\ chunk_size = MaxChunk
    /\ version \in {<<>>, <<"c">>}
    /\ \E m \in TaskMetadata :
          /\ m.graph # <<>>
          /\ m.label = <<<<"t">>>>
          /\ m.description \in {<<<<"d">>>>, <<<<" ">>>>}
          /\ args = <<m, version>>
    /\ result = NoResult
    /\ today \in Dates
    /\ dirs = Prefixes(<<Group, Artifact, EffectiveVersion(version, today)>>, 3)
    /\ create_parent_dirs = TRUE
    /\ data = <<>> /\ path = <<>>
    /\ current_path = 0 /\ responses = <<>>
    /\ gen = "none" /\ gen_i = 0 /\ body = <<>>
    /\ put_status = 0 /\ reports = <<>> /\ log = <<>> /\ exc = NoExc
    /\ src = <<>> /\ get_status = 0 /\ rx = 0
    /\ summary = <<>> /\ warnings = <<>> /\ deployed = <<>> /\ target = NoTarget
    /\ NoCtor

\* the same instance is executed again, on the same day or a later one, with a new
\* context: the finished execute is noted in result, self.version and the servers
\* are as the finished execute left them, everything local to an execute starts anew
execute_again ==
    /\ mode = "publisher"
    /\ pc \in {"returned", "raised"}
    /\ Len(args) = 2
    /\ Len(result.value) < MaxExecutes - 1
    /\ result' = [raised |-> exc.type,
                  value |-> Append(result.value,
                      [version |-> version, today |-> today, warnings |-> warnings])]
    /\ \E d \in Dates : NotBefore(d, today) /\ today' = d
    /\ pc' = "pub_version"
    /\ summary' = <<>> /\ warnings' = <<>>
    /\ data' = <<>> /\ path' = <<>>
    /\ current_path' = 0 /\ responses' = <<>>
    /\ gen' = "none" /\ gen_i' = 0 /\ body' = <<>>
    /\ put_status' = 0 /\ reports' = <<>> /\ log' = <<>> /\ exc' = NoExc
    /\ src' = <<>> /\ get_status' = 0 /\ rx' = 0
    /\ UNCHANGED <<cfgVars, args, version, dirs, deployed, target>>

NextReexecute == NextMetadata \/ execute_again

SpecReexecute == InitReexecute /\ [][NextReexecute]_vars


\* ------------------------------------------------- DatabusDeployPlugin.__init__
\* longest part of a dataset artifact uri after its scheme
MaxUriLen == 10

\* a uri is an optional scheme token followed by characters
Schemes == {<<>>, <<"https:">>, <<"http:">>, <<"ftp:">>}

UriChars == {"/", "x"}

Uris == {s \o b : s \in Schemes, b \in UNION {[1..n -> UriChars] : n \in 0..MaxUriLen}}

CvsInputs ==
    {<<"k", "=", "v">>, <<"k", "=", "v", ",", "l", "=", "w">>, <<>>, <<"k">>,
     <<"k", "=", "v", "=", "w">>}

\* s.split(sep)
RECURSIVE Split(_, _)
Split(s, sep) ==
    IF Find(s, sep) = 0 THEN <<s>>
    ELSE <<SubSeq(s, 1, Find(s, sep) - 1)>>
             \o Split(SubSeq(s, Find(s, sep) + 1, Len(s)), sep)

\* sep.join(parts)
RECURSIVE Join(_, _)
Join(parts, sep) ==
    IF Len(parts) = 0 THEN <<>>
    ELSE IF Len(parts) = 1 THEN parts[1]
    ELSE parts[1] \o <<sep>> \o Join(Tail(parts), sep)

\* s.rsplit(sep, maxsplit)
RSplit(s, sep, maxsplit) ==
    LET parts == Split(s, sep)
        n == Len(parts)
    IN  IF n <= maxsplit + 1 THEN parts
        ELSE <<Join(SubSeq(parts, 1, n - maxsplit), sep)>>
                 \o SubSeq(parts, n - maxsplit + 1, n)

\* s matches ([^/]+/){n}$
RECURSIVE MatchSegments(_, _)
MatchSegments(s, n) ==
    IF n = 0 THEN s = <<>>
    ELSE /\ Find(s, "/") > 1
         /\ MatchSegments(SubSeq(s, Find(s, "/") + 1, Len(s)), n - 1)

\* re.match(r"^https?://[^/]+/[^/]+/[^/]+/[^/]+/$", uri)
validate_dataset_artifact_uri(u) ==
    /\ Len(u) >= 3
    /\ u[1] \in {"https:", "http:"}
    /\ u[2] = "/" /\ u[3] = "/"
    /\ MatchSegments(SubSeq(u, 4, Len(u)), 4)

\* if validate_dataset_artifact_uri(dataset_artifact_uri): raise ValueError(...)
UriRejected(u) == validate_dataset_artifact_uri(u)

\* self.dataset_artifact_uri.rstrip("/ ").rsplit("/", 3)
get_identifier_from_artifact(u) == RSplit(RStrip(u, {"/", " "}), "/", 3)

\* key, value = content_variant.split("=") works for every content variant
CvsWellFormed(c) ==
    \A i \in 1..Len(Split(c, ",")) : Len(Split(Split(c, ",")[i], "=")) = 2

\* the dict the loop over cvs.split(",") builds, as its items in insertion order
RECURSIVE CvsItems(_)
CvsItems(variants) ==
    IF variants = <<>> THEN <<>>
    ELSE LET before == CvsItems(SubSeq(variants, 1, Len(variants) - 1))
             item == Split(Last(variants), "=")
         IN  IF \E i \in 1..Len(before) : before[i][1] = item[1]
             THEN [i \in 1..Len(before) |->
                      IF before[i][1] = item[1] THEN item ELSE before[i]]
             ELSE Append(before, item)

InitCtor ==
    /\ mode = "ctor"
    /\ pc = "new"
    /\ uri \in Uris
    /\ cvs \in CvsInputs
    /\ plugin = NoPlugin
    /\ chunk_size \in ParameterChunkSizes
    /\ create_parent_dirs = TRUE
    /\ version = <<>>
    /\ today = NoDate /\ dirs = {}
    /\ data = <<>> /\ path = <<>>
    /\ current_path = 0 /\ responses = <<>>
    /\ gen = "none" /\ gen_i = 0 /\ body = <<>>
    /\ put_status = 0 /\ reports = <<>> /\ log = <<>> /\ exc = NoExc
    /\ src = <<>> /\ get_status = 0 /\ rx = 0
    /\ summary = <<>> /\ warnings = <<>> /\ deployed = <<>> /\ target = NoTarget
    /\ NoCall

\* __init__, lines 136-152
publisher_init ==
    /\ pc = "new"
    /\ IF UriRejected(uri)
       THEN /\ pc' = "raised"
            /\ exc' = PyException("ValueError",
                          "The specified dataset artifact uri is not valid")
            /\ plugin' = plugin
       ELSE IF Len(get_identifier_from_artifact(uri)) # 4
       THEN /\ pc' = "raised"
            /\ exc' = PyException("ValueError", "not enough values to unpack")
            /\ plugin' = plugin
       ELSE IF ~CvsWellFormed(cvs)
       THEN /\ pc' = "raised"
            /\ exc' = PyException("ValueError", "not enough values to unpack")
            /\ plugin' = plugin
       ELSE /\ pc' = "constructed"
            /\ exc' = exc
            /\ plugin' = [dataset_artifact_uri |-> uri,
                          identifier |-> get_identifier_from_artifact(uri),
                          cvs |-> CvsItems(Split(cvs, ","))]
    /\ UNCHANGED <<mode, chunk_size, create_parent_dirs, uri, cvs, callVars, data, path, davVars,
                   genVars, reports, log, pubVars, srcVars, target>>

\* execute is called on the constructed plugin and reaches line 214, where the
\* artifact uri is taken apart for the transfer
publisher_execute ==
    /\ pc = "constructed"
    /\ pc' = "executing"
    /\ path' = <<plugin.identifier[3], plugin.identifier[4]>>
    /\ UNCHANGED <<cfgVars, callVars, data, davVars, genVars, reports, log, exc, pubVars,
                   srcVars, target>>

NextCtor == publisher_init \/ publisher_execute

SpecCtor == InitCtor /\ [][NextCtor]_vars


\* ------------------------------------------------------------ get_clock, called
\* largest counter get_clock is called with
MaxCounter == 120

\* the callers pass the index of enumerate(): 0, 1, 2, ...
Counters == 0..MaxCounter

InitClock ==
    /\ mode = "clock"
    /\ pc = "call"
    /\ args \in {<<n>> : n \in Counters}
    /\ result = NoResult
    /\ chunk_size = 1 /\ create_parent_dirs = FALSE
    /\ NoCtor
    /\ dirs = {} /\ data = <<>> /\ path = <<>>
    /\ current_path = 0 /\ responses = <<>>
    /\ gen = "none" /\ gen_i = 0 /\ body = <<>>
    /\ put_status = 0 /\ reports = <<>> /\ log = <<>> /\ exc = NoExc
    /\ version = <<>> /\ today = NoDate
    /\ src = <<>> /\ get_status = 0 /\ rx = 0
    /\ summary = <<>> /\ warnings = <<>> /\ deployed = <<>> /\ target = NoTarget

\* get_clock(counter): the dictionary is looked up with the last digit
get_clock_call ==
    /\ mode = "clock" /\ pc = "call"
    /\ result' = IF IsDigit(Last(repr(args[1])))
                 THEN [raised |-> "", value |-> get_clock(args[1])]
                 ELSE [raised |-> "ValueError", value |-> <<>>]
    /\ pc' = "returned"
    /\ UNCHANGED <<mode, chunk_size, create_parent_dirs, uri, cvs, plugin, args, data,
                   path, davVars, genVars, reports, log, exc, pubVars, srcVars, target>>

NextClock == get_clock_call

SpecClock == InitClock /\ [][NextClock]_vars


\* ------------------------------------------------ fetch_query_result_by_key, called
\* most bindings in a SPARQL result
MaxBindings == 2

\* the variables a binding of the result can bind
BindingKeys == {"acc", "file"}

\* the keys asked for: "group" is in no binding
QueryKeys == BindingKeys \cup {"group"}

BindingValues == {"u", "v"}

\* a binding: some of the variables, each with {"type": ..., "value": ...}
Bindings ==
    UNION {[ks -> [type : {"uri"}, value : BindingValues]] : ks \in SUBSET BindingKeys}

\* query_results["results"]["bindings"]
BindingLists == UNION {[1..n -> Bindings] : n \in 0..MaxBindings}

KeyError == [raised |-> "KeyError", value |-> <<>>]

\* list(map(lambda binding: str(binding[key]["value"]), bindings)): the values in the
\* order of the bindings, KeyError at a binding without the key
RECURSIVE MapBindings(_, _)
MapBindings(bindings, key) ==
    IF bindings = <<>> THEN [raised |-> "", value |-> <<>>]
    ELSE IF key \notin DOMAIN Head(bindings) THEN KeyError
    ELSE LET rest == MapBindings(Tail(bindings), key)
         IN  IF rest.raised # "" THEN rest
             ELSE [raised |-> "", value |-> <<Head(bindings)[key].value>> \o rest.value]

InitSparql ==
    /\ mode = "sparql"
    /\ pc = "call"
    /\ args \in {<<b, k>> : b \in BindingLists, k \in QueryKeys}
    /\ result = NoResult
    /\ chunk_size = 1 /\ create_parent_dirs = FALSE
    /\ NoCtor
    /\ dirs = {} /\ data = <<>> /\ path = <<>>
    /\ current_path = 0 /\ responses = <<>>
    /\ gen = "none" /\ gen_i = 0 /\ body = <<>>
    /\ put_status = 0 /\ reports = <<>> /\ log = <<>> /\ exc = NoExc
    /\ version = <<>> /\ today = NoDate
    /\ src = <<>> /\ get_status = 0 /\ rx = 0
    /\ summary = <<>> /\ warnings = <<>> /\ deployed = <<>> /\ target = NoTarget

\* variant: KeyError is not caught
fetch_query_result_by_key_uncaught ==
    /\ mode = "sparql" /\ pc = "call"
    /\ result' = MapBindings(args[1], args[2])
    /\ pc' = "returned"
    /\ UNCHANGED <<mode, chunk_size, create_parent_dirs, uri, cvs, plugin, args, data,
                   path, davVars, genVars, reports, log, exc, pubVars, srcVars, target>>

\* fetch_query_result_by_key(endpoint, query, key) on the converted result of the
\* query: the mapped values, and an empty list for a KeyError
fetch_query_result_by_key ==
    /\ mode = "sparql" /\ pc = "call"
    /\ result' = IF MapBindings(args[1], args[2]) = KeyError
                 THEN [raised |-> "", value |-> <<>>]
                 ELSE MapBindings(args[1], args[2])
    /\ pc' = "returned"
    /\ UNCHANGED <<mode, chunk_size, create_parent_dirs, uri, cvs, plugin, args, data,
                   path, davVars, genVars, reports, log, exc, pubVars, srcVars, target>>

NextSparql == fetch_query_result_by_key

SpecSparql == InitSparql /\ [][NextSparql]_vars


\* ------------------------------------------- the autocompletions of the loader's
\* parameter types, called on the answers of the services they ask
\* most resources of a project, most option values of a facet, most files of an artifact
MaxItems == 2

\* most query terms of a call
MaxTerms == 2

\* Autocompletion(value=..., label=...)
Autocompletion(value, label) == [value |-> value, label |-> label]

\* s.find(sub): the lowest 0-based index where sub starts in s, -1 if there is none
StrFind(s, sub) ==
    LET starts == {i \in 0..(Len(s) - Len(sub)) : SubSeq(s, i + 1, i + Len(sub)) = sub}
    IN  IF starts = {} THEN -1
        ELSE CHOOSE i \in starts : \A j \in starts : i <= j

\* [_ for _ in result if _.value.find(query_terms[0]) > -1]
FilterByTerm(suggestions, term) ==
    SelectSeq(suggestions, LAMBDA a : StrFind(a.value, term) > -1)

\* the query terms of a call: none, one or several words
QueryWords == {<<>>, <<"a">>, <<"d", "/">>, <<"z">>}

QueryTerms == UNION {[1..n -> QueryWords] : n \in 0..MaxTerms}

\* the resources get_resources(project) answers with: a full path and a name each
Resources ==
    {[fullPath |-> <<"a">>, name |-> <<"a">>],
     [fullPath |-> <<"d", "/", "a">>, name |-> <<"a">>],
     [fullPath |-> <<"d", "/", "b">>, name |-> <<"b">>]}

ResourceLists == UNION {[1..n -> Resources] : n \in 0..MaxItems}

\* the inputs of an autocompletion that is not being called
NoCompletion ==
    /\ chunk_size = 1 /\ create_parent_dirs = FALSE
    /\ NoCtor
    /\ dirs = {} /\ data = <<>> /\ path = <<>>
    /\ current_path = 0 /\ responses = <<>>
    /\ gen = "none" /\ gen_i = 0 /\ body = <<>>
    /\ put_status = 0 /\ reports = <<>> /\ log = <<>> /\ exc = NoExc
    /\ version = <<>> /\ today = NoDate
    /\ src = <<>> /\ get_status = 0 /\ rx = 0
    /\ summary = <<>> /\ warnings = <<>> /\ deployed = <<>> /\ target = NoTarget

\* ResourceParameterType.autocomplete is called with query terms in a project whose
\* resources are args[2]
InitResource ==
    /\ mode = "resource"
    /\ pc = "call"
    /\ args \in {<<q, r>> : q \in QueryTerms, r \in ResourceLists}
    /\ result = NoResult
    /\ NoCompletion

\* variant: nothing is offered when no resource matches
ResourceSuggestionsNoNew(query_terms, resources) ==
    LET all == [i \in 1..Len(resources) |->
                   Autocompletion(resources[i].fullPath, resources[i].name)]
    IN  IF query_terms # <<>> THEN FilterByTerm(all, query_terms[1]) ELSE all

\* the body of ResourceParameterType.autocomplete on the resources of the project
ResourceSuggestions(query_terms, resources) ==
    LET all == [i \in 1..Len(resources) |->
                   Autocompletion(resources[i].fullPath, resources[i].name)]
        found == IF query_terms # <<>> THEN FilterByTerm(all, query_terms[1]) ELSE all
    IN  IF found = <<>> /\ query_terms # <<>>
        THEN <<Autocompletion(query_terms[1], query_terms[1] \o <<" (New resource)">>)>>
        ELSE found

ResourceParameterType_autocomplete ==
    /\ mode = "resource" /\ pc = "call"
    /\ result' = [raised |-> "", value |-> ResourceSuggestions(args[1], args[2])]
    /\ pc' = "returned"
    /\ UNCHANGED <<mode, chunk_size, create_parent_dirs, uri, cvs, plugin, args, data,
                   path, davVars, genVars, reports, log, exc, pubVars, srcVars, target>>


\* ord(ch) of the characters of the option values
Ord(ch) ==
    CASE ch = "." -> 46
      [] ch = "1" -> 49
      [] ch = "2" -> 50
      [] ch = "9" -> 57
      [] ch = "d" -> 100
      [] ch = "m" -> 109
      [] ch = "t" -> 116

\* a < b for two str: the first differing character decides, a proper prefix is less
RECURSIVE StrLess(_, _)
StrLess(a, b) ==
    IF b = <<>> THEN FALSE
    ELSE IF a = <<>> THEN TRUE
    ELSE IF Head(a) # Head(b) THEN Ord(Head(a)) < Ord(Head(b))
    ELSE StrLess(Tail(a), Tail(b))

\* x put into the sorted list l behind every element that does not come after it
RECURSIVE Insert(_, _, _)
Insert(l, x, reverse) ==
    IF l = <<>> THEN <<x>>
    ELSE IF (IF reverse THEN StrLess(Head(l), x) ELSE StrLess(x, Head(l)))
         THEN <<x>> \o l
         ELSE <<Head(l)>> \o Insert(Tail(l), x, reverse)

\* sorted(l, reverse=reverse)
RECURSIVE SortedBy(_, _)
SortedBy(l, reverse) ==
    IF l = <<>> THEN <<>>
    ELSE Insert(SortedBy(SubSeq(l, 1, Len(l) - 1), reverse), Last(l), reverse)

\* variant: the reverse flag is ignored
sorted_ascending(l, reverse) == SortedBy(l, FALSE)

sorted(l, reverse) == SortedBy(l, reverse)

\* the facets the loader's parameters are built with
FacetNames == {"version", "format"}

\* the values the Databus lists for a facet
VersionValues == {<<"9">>, <<"1", "2">>, <<"1", "2", ".", "1">>}

FormatValues == {<<"m", "d">>, <<"t", "t", "m">>}

\* the query terms of a facet search
FacetWords == {<<>>, <<"1">>, <<"t">>, <<"2", ".">>, <<"d", "m">>}

FacetTerms == UNION {[1..n -> FacetWords] : n \in 0..MaxTerms}

\* what fetch_facets_options answers with: the values of both facets
FacetOptions ==
    {[version |-> v, format |-> f] :
        v \in UNION {[1..n -> VersionValues] : n \in 0..MaxItems},
        f \in UNION {[1..n -> FormatValues] : n \in 0..MaxItems}}

\* FacetSearch(facet_option=args[1]).autocomplete is called with the query terms
\* args[2] on an artifact whose facets are args[3]
InitFacet ==
    /\ mode = "facet"
    /\ pc = "call"
    /\ args \in {<<f, q, o>> : f \in FacetNames, q \in FacetTerms, o \in FacetOptions}
    /\ result = NoResult
    /\ NoCompletion

\* the body of FacetSearch.autocomplete on the answer of fetch_facets_options
FacetSuggestions(facet_option, query_terms, facet_options) ==
    LET _format == sorted(facet_options[facet_option], facet_option = "version")
        all == [i \in 1..Len(_format) |-> Autocompletion(_format[i], _format[i])]
    IN  IF query_terms # <<>> THEN FilterByTerm(all, query_terms[1]) ELSE all

FacetSearch_autocomplete ==
    /\ mode = "facet" /\ pc = "call"
    /\ result' = [raised |-> "", value |-> FacetSuggestions(args[1], args[2], args[3])]
    /\ pc' = "returned"
    /\ UNCHANGED <<mode, chunk_size, create_parent_dirs, uri, cvs, plugin, args, data,
                   path, davVars, genVars, reports, log, exc, pubVars, srcVars, target>>


\* the distributions a Databus artifact holds: dcat:byteSize is OPTIONAL in the query of
\* fetch_databus_files, and the variant is the GROUP_CONCAT of the content variants
Distributions ==
    {[file |-> "f1", version |-> "23.01", format |-> "md", compression |-> "none",
      variant |-> <<>>, byteSize |-> <<"10">>],
     [file |-> "f2", version |-> "23.01", format |-> "md", compression |-> "none",
      variant |-> <<", ", "x">>, byteSize |-> <<"20">>],
     [file |-> "f3", version |-> "23.02", format |-> "md", compression |-> "gz",
      variant |-> <<"x">>, byteSize |-> <<"5">>],
     [file |-> "f4", version |-> "23.01", format |-> "ttl", compression |-> "none",
      variant |-> <<>>, byteSize |-> <<>>]}

Catalogues == UNION {[1..n -> Distributions] : n \in 0..MaxItems}

\* the values of databus_base_url, databus_artifact, artifact_format, artifact_version
DependValues ==
    {<<DatabusBase, Artifact, f, v>> : f \in {"md", "ttl", "NOTFOUND"},
                                       v \in {"23.01", "23.02"}}

\* the query terms of a file search
FileTerms == {<<>>, <<"f1">>, <<"ADSLASD">>}

\* the binding of one solution of the query: the variables of the required patterns
\* and of the aggregate are bound, ?size only where the distribution has a byte size
\* (?artifact and ?license are bound as well and never read)
BindingOf(d) ==
    [k \in {"file", "version", "format", "compression", "variant"}
           \cup (IF d.byteSize = <<>> THEN {} ELSE {"size"}) |->
        [value |-> CASE k = "file" -> <<d.file>>
                     [] k = "version" -> <<d.version>>
                     [] k = "format" -> <<d.format>>
                     [] k = "compression" -> <<d.compression>>
                     [] k = "variant" -> d.variant
                     [] k = "size" -> d.byteSize]]

\* fetch_databus_files(endpoint, artifact, version, file_format): the bindings of the
\* distributions with hasVersion 'version' and formatExtension 'file_format'
fetch_databus_files(catalogue, artifact_version, file_format) ==
    LET found == SelectSeq(catalogue,
                     LAMBDA d : d.version = artifact_version /\ d.format = file_format)
    IN  [i \in 1..Len(found) |-> BindingOf(found[i])]

\* value if not value.startswith(", ") else value.replace(", ", "", 1)
VariantOf(value) == IF value # <<>> /\ Head(value) = ", " THEN Tail(value) ELSE value

\* the keys one turn of the loop of DatabusFile.autocomplete reads
KeysRead == {"variant", "file", "version", "format", "compression", "size"}

\* one turn of the loop: the suggestion made of a binding
FileSuggestion(b) ==
    Autocompletion(b["file"].value,
        <<"Version=">> \o b["version"].value
            \o <<", ", "Variant=">> \o VariantOf(b["variant"].value)
            \o <<", ", "Format=">> \o b["format"].value
            \o <<", ", "Compression=">> \o b["compression"].value
            \o <<", ", "Size=">> \o b["size"].value \o <<" Bytes">>)

\* the loop over the bindings: KeyError at the first binding without a key it reads
RECURSIVE FileSuggestions(_)
FileSuggestions(bindings) ==
    IF bindings = <<>> THEN [raised |-> "", value |-> <<>>]
    ELSE IF ~(KeysRead \subseteq DOMAIN Head(bindings)) THEN KeyError
    ELSE LET rest == FileSuggestions(Tail(bindings))
         IN  IF rest.raised # "" THEN rest
             ELSE [raised |-> "", value |-> <<FileSuggestion(Head(bindings))>> \o rest.value]

\* the body of DatabusFile.autocomplete: the query terms are not read
DatabusFileSuggestions(query_terms, depend_on_parameter_values, catalogue) ==
    FileSuggestions(fetch_databus_files(catalogue, depend_on_parameter_values[4],
                                        depend_on_parameter_values[3]))

\* DatabusFile.autocomplete is called with the query terms args[1] and the dependent
\* values args[2] on a Databus whose artifact holds args[3]
InitFile ==
    /\ mode = "file"
    /\ pc = "call"
    /\ args \in {<<q, d, c>> : q \in FileTerms, d \in DependValues, c \in Catalogues}
    /\ result = NoResult
    /\ NoCompletion

DatabusFile_autocomplete ==
    /\ mode = "file" /\ pc = "call"
    /\ result' = DatabusFileSuggestions(args[1], args[2], args[3])
    /\ pc' = "returned"
    /\ UNCHANGED <<mode, chunk_size, create_parent_dirs, uri, cvs, plugin, args, data,
                   path, davVars, genVars, reports, log, exc, pubVars, srcVars, target>>

InitAutocomplete == InitResource \/ InitFacet \/ InitFile

NextAutocomplete ==
    \/ ResourceParameterType_autocomplete
    \/ FacetSearch_autocomplete
    \/ DatabusFile_autocomplete

SpecAutocomplete == InitAutocomplete /\ [][NextAutocomplete]_vars


\* ======================================================================== claims
\* The requests of one method in the log, in order
RECURSIVE OfMethod(_, _)
OfMethod(l, method) ==
    IF l = <<>> THEN <<>>
    ELSE IF Head(l).method = method THEN <<Head(l)>> \o OfMethod(Tail(l), method)
    ELSE OfMethod(Tail(l), method)

Urls(l) == [i \in 1..Len(l) |-> l[i].url]

LogIndexes(method) == {i \in 1..Len(log) : log[i].method = method}

\* requests that belong to the upload side of a transfer
UploadCalls == {i \in 1..Len(log) : log[i].method \in {"HEAD", "MKCOL", "PUT", "POST"}}

HasReport(desc) == \E i \in 1..Len(reports) : reports[i].operation_desc = desc

\* the directory ensure of upload_file_with_context has run to its end
EnsureDone == create_parent_dirs /\ pc \in {"put", "put_body", "returned", "pub_check"}

\* C1: for every byte buffer B and every chunk size c > 0, the chunks yielded by
\* byte_iterator_context_update(B, ctx, c, desc), concatenated in order, are B: while
\* the iterator runs they are a prefix of B, and once it is exhausted they are all of B.
C1_ChunksReconstructBuffer ==
    (mode = "iter" /\ chunk_size > 0) =>
        /\ Flatten(body) = SubSeq(data, 1, Len(Flatten(body)))
        /\ (pc = "returned" => Flatten(body) = data)

C1_Witness ==
    /\ mode = "iter" /\ pc = "returned" /\ chunk_size > 1
    /\ Len(body) >= 2
    /\ Len(Last(body)) < chunk_size
    /\ Flatten(body) = data

\* C2: whenever the source GET of a transfer returns a status >= 400 (400 itself
\* included), no upload call is made, and the run ends in DownloadFailed with the
\* response body as the error (the loader's "Download Failed" report carrying the body;
\* for the publisher, the error raised for the failed GET).
C2_FailedGetEndsDownloadFailed ==
    get_status >= 400 =>
        /\ UploadCalls = {}
        /\ pc = "returned" =>
              /\ Last(reports).operation_desc = "Download Failed"
              /\ Last(reports).error = src
        /\ pc = "raised" => exc.type = "HTTPError"

\* C3 as stated: create_dirs never issues MKCOL for a path prefix that exists on the
\* server (so with every segment existing it issues none and returns an empty list).
C3_NeverMkcolOnExisting ==
    [][(pc = "mkcol" /\ pc' # "mkcol") => CurrentSegments \notin dirs]_vars

\* C3, amended: create_dirs never issues MKCOL for a path prefix whose existence probe
\* reported it present (HEAD answered 405): every MKCOL directly follows the HEAD of the
\* same URL, and that HEAD was not answered 405 (a probe that ends in a RequestException
\* counts as "absent", so a directory that exists can still get a MKCOL). When every
\* probe reports its prefix present, create_dirs issues no MKCOL and returns an empty
\* list.
C3_NoMkcolAfterPositiveProbe ==
    /\ \A i \in LogIndexes("MKCOL") :
          /\ i > 1
          /\ log[i - 1].method = "HEAD"
          /\ log[i - 1].url = log[i].url
          /\ log[i - 1].status # 405
    /\ \A i \in LogIndexes("HEAD") :
          (log[i].status = 405 /\ i < Len(log)) => log[i + 1].method # "MKCOL"
    /\ (EnsureDone /\ \A i \in LogIndexes("HEAD") : log[i].status = 405) =>
          /\ responses = <<>>
          /\ LogIndexes("MKCOL") = {}
          /\ exc = NoExc

C3_Witness ==
    /\ mode = "upload" /\ pc = "put" /\ create_parent_dirs
    /\ Len(DirSegments) = 3
    /\ Cardinality(LogIndexes("HEAD")) = 3
    /\ \A i \in LogIndexes("HEAD") : log[i].status = 405
    /\ responses = <<>>

\* C4: if a MKCOL made by create_dirs is answered 403, the ensurer fails (it raises
\* WebDAVException) and no request at all follows that MKCOL: no HEAD and no MKCOL for
\* a longer prefix, and no PUT.
C4_Mkcol403StopsTheWalk ==
    \A i \in LogIndexes("MKCOL") :
        log[i].status = 403 =>
            /\ i = Len(log)
            /\ pc = "raised"
            /\ exc.type = "WebDAVException"

C4_Witness ==
    /\ pc = "raised"
    /\ Last(log).method = "MKCOL" /\ Last(log).status = 403
    /\ current_path < Len(DirSegments)
    /\ current_path >= 2

\* C5: in create_dirs a MKCOL answered 200, 201 or 405 is a success, no error is raised
\* for it and the walk goes on; a MKCOL answered anything else is the last request of
\* the operation, which raises WebDAVException with the method, the URL, the status and
\* the response body of that MKCOL.
C5_MkcolStatusHandling ==
    \A i \in LogIndexes("MKCOL") :
        /\ log[i].status \in {200, 201, 405} =>
              /\ ~(exc.type = "WebDAVException" /\ exc.url = log[i].url)
              /\ i = Len(log) => pc \in {"dirs", "put"}
        /\ log[i].status \notin {200, 201, 405} =>
              /\ i = Len(log)
              /\ pc = "raised"
              /\ exc = [type |-> "WebDAVException",
                        msg |-> "Exception during WebDAV Request",
                        method |-> "MKCOL", url |-> log[i].url,
                        status |-> log[i].status,
                        text |-> ResponseText(log[i].status)]

C5_Witness ==
    /\ pc = "raised" /\ exc.type = "WebDAVException" /\ exc.status = 500
    /\ \E i, j \in LogIndexes("MKCOL") : log[i].status = 405 /\ log[j].status = 201

\* C6: if a MKCOL of the directory creation in upload_file_with_context(
\* create_parent_dirs=True) is answered with an unexpected status, the upload is aborted
\* before any byte is sent: no PUT is issued, no chunk is pulled from the chunk
\* iterator, and no "Uploading File" report is made.
C6_FailedDirsAbortBeforePut ==
    (\E i \in LogIndexes("MKCOL") : log[i].status \notin {200, 201, 405}) =>
        /\ pc = "raised"
        /\ LogIndexes("PUT") = {}
        /\ gen = "created" /\ gen_i = 0 /\ body = <<>>
        /\ ~HasReport("Uploading File")

C6_Witness ==
    /\ mode = "upload" /\ create_parent_dirs /\ pc = "raised"
    /\ Len(data) >= 2
    /\ current_path = 1 /\ Len(DirSegments) = 3
    /\ Last(log).method = "MKCOL" /\ Last(log).status = 500

\* the scenario of C7: upload_file_with_context("a/b/c/file.ttl", create_parent_dirs=
\* True) on a server where, of the directories of the path, only "a" exists (a directory
\* the run created answers its MKCOL with 200 or 201)
ScenarioABC ==
    /\ mode = "upload" /\ create_parent_dirs
    /\ path = <<"a", "b", "c", "file.ttl">>
    /\ <<"a">> \in dirs
    /\ \A i \in LogIndexes("MKCOL") : log[i].url = DirUrl(<<"a">>) => log[i].status = 405
    /\ \A d \in {<<"a", "b">>, <<"a", "b", "c">>} :
          d \in dirs => \E i \in LogIndexes("MKCOL") :
                            log[i].url = DirUrl(d) /\ log[i].status \in {200, 201}

MkcolUrls == Urls(OfMethod(log, "MKCOL"))

\* C7 as stated: in the scenario the upload issues exactly 2 MKCOL calls, for "a/b" and
\* then "a/b/c", and none for "a" or for the file name.
C7_ExactlyTwoMkcol ==
    (ScenarioABC /\ EnsureDone) =>
        MkcolUrls = <<DirUrl(<<"a", "b">>), DirUrl(<<"a", "b", "c">>)>>

\* C7, amended: in the scenario, when the existence probe of "a" reports it present (its
\* HEAD is answered 405), an upload whose directory creation runs to its end has issued
\* exactly 2 MKCOL calls, for "a/b" and then "a/b/c"; in every run no MKCOL is issued
\* for the file name, and a MKCOL for "a" is issued only after a probe of "a" that was
\* not answered 405 (it ended in a RequestException).
C7_TwoMkcolWhenProbesAnswered ==
    ScenarioABC =>
        /\ (EnsureDone /\ log[1] = Request("HEAD", DirUrl(<<"a">>), 405)) =>
              MkcolUrls = <<DirUrl(<<"a", "b">>), DirUrl(<<"a", "b", "c">>)>>
        /\ \A i \in LogIndexes("MKCOL") :
              /\ log[i].url \in {DirUrl(<<"a">>), DirUrl(<<"a", "b">>),
                                 DirUrl(<<"a", "b", "c">>)}
              /\ log[i].url = DirUrl(<<"a">>) => log[i - 1].status # 405

C7_Witness ==
    /\ ScenarioABC /\ pc = "returned"
    /\ log[1] = Request("HEAD", DirUrl(<<"a">>), 405)
    /\ MkcolUrls = <<DirUrl(<<"a", "b">>), DirUrl(<<"a", "b", "c">>)>>
    /\ Len(log) = 6

\* C8: in the publisher, a PUT answered with a status >= 400 ends the run in
\* UploadFailed: WebDAVException for the PUT is raised with the response body, "WebDAV
\* Upload Successful" is not reported and deploy is not called; a PUT answered with a
\* status < 400 makes the upload step end in success, "WebDAV Upload Successful" is
\* reported.
C8_PutStatusDecidesUpload ==
    (mode = "publisher" /\ put_status # 0 /\ pc # "pub_check") =>
        /\ put_status >= 400 =>
              /\ pc = "raised"
              /\ exc = [type |-> "WebDAVException",
                        msg |-> "Exception during WebDAV Request",
                        method |-> "PUT", url |-> path, status |-> put_status,
                        text |-> ResponseText(put_status)]
              /\ ~HasReport("WebDAV Upload Successful")
              /\ ~HasReport("Deployment Successful")
              /\ deployed = <<>>
        /\ put_status < 400 =>
              /\ HasReport("WebDAV Upload Successful")
              /\ exc.type # "WebDAVException"

C8_Witness ==
    /\ mode = "publisher" /\ pc = "raised" /\ put_status = 400
    /\ Len(body) >= 2
    /\ exc.type = "WebDAVException"

\* the documented convention https://{DATABUS_BASE_URI}/{PUBLISHER}/{GROUP}/{ARTIFACT}/:
\* split at "/", the uri is the scheme, an empty part, four non-empty parts and an
\* empty part
Conforms(u) ==
    LET parts == Split(u, "/")
    IN  /\ Len(parts) = 7
        /\ parts[1] = <<"https:">>
        /\ parts[2] = <<>> /\ parts[7] = <<>>
        /\ \A i \in 3..6 : parts[i] # <<>>

\* C9: the constructor of DatabusDeployPlugin accepts a dataset artifact uri that
\* conforms to the documented convention (the other arguments being well-formed), and
\* raises ValueError "The specified dataset artifact uri is not valid" only for a uri
\* that does not conform.
C9_ConstructorAcceptsConformingUri ==
    (mode = "ctor" /\ pc # "new") =>
        /\ (Conforms(uri) /\ CvsWellFormed(cvs)) => pc # "raised"
        /\ exc.msg = "The specified dataset artifact uri is not valid" => ~Conforms(uri)

\* a dataset artifact uri that decomposes into base, publisher, group and artifact: a
\* base made of a scheme, "//" and a host, and three more non-empty parts
Decomposable(u) ==
    LET parts == get_identifier_from_artifact(u)
    IN  /\ Len(parts) = 4
        /\ \A i \in 2..4 : parts[i] # <<>>
        /\ Len(parts[1]) >= 4
        /\ parts[1][1] \in {"https:", "http:"}
        /\ parts[1][2] = "/" /\ parts[1][3] = "/"
        /\ \A i \in 4..Len(parts[1]) : parts[1][i] # "/"

\* C10: a dataset artifact path that cannot be decomposed into base, publisher, group
\* and artifact is rejected by the constructor: no execute runs with such a path.
C10_NoExecuteWithMalformedPath ==
    (mode = "ctor" /\ pc = "executing") => Decomposable(uri)

\* a request the pipeline counts as failed: a GET, PUT or POST answered with a status
\* >= 400, a MKCOL answered with a status other than 200, 201, 405
FailedRequest(r) ==
    \/ r.method \in {"GET", "PUT", "POST"} /\ r.status >= 400
    \/ r.method = "MKCOL" /\ r.status \notin {200, 201, 405}

\* the failures the run has made known: error reports and the exception that left it
FailureNotices ==
    Cardinality({i \in 1..Len(reports) :
                    reports[i].error # <<>> \/ reports[i].operation_desc = "Download Failed"})
        + (IF exc = NoExc THEN 0 ELSE 1)

\* no request is issued twice: no two requests of a run have the same method and URL
NoRequestTwice ==
    \A i, j \in 1..Len(log) :
        (log[i].method = log[j].method /\ log[i].url = log[j].url) => i = j

\* C11: no HTTP request of a transfer is retried: each GET, each HEAD and MKCOL of a
\* path prefix and the PUT are issued at most once; and a failed request is the last
\* request of the run, which has ended with the failure made known exactly once.
C11_NoRetryHaltOnFailure ==
    /\ NoRequestTwice
    /\ \A i \in 1..Len(log) :
          (FailedRequest(log[i]) /\ pc # "pub_check") =>
              /\ i = Len(log)
              /\ pc \in {"returned", "raised"}
              /\ FailureNotices = 1

\* ------------------------------------------------------------- the end of a run
\* execute and every call it makes are synchronous and blocking, each request has a
\* timeout: a run that can take a step takes it
FairSpec == Init /\ [][Next]_vars /\ WF_vars(Next)

\* execute has returned or an exception has left it
Terminated == pc \in {"returned", "raised"}

\* Success: the loader reports "Download Successful" after an upload answered < 400,
\* the publisher reports "Deployment Successful" after a PUT answered < 400
EndsSuccess ==
    /\ pc = "returned" /\ exc = NoExc
    /\ put_status # 0 /\ put_status < 400
    /\ reports # <<>>
    /\ Last(reports).error = <<>>
    /\ Last(reports).operation_desc =
          (IF mode = "loader" THEN "Download Successful" ELSE "Deployment Successful")

\* DownloadFailed: the loader reports "Download Failed" for the GET and makes no upload
\* request; in the publisher the error of the failed GET leaves execute
EndsDownloadFailed ==
    /\ UploadCalls = {}
    /\ log # <<>>
    /\ \/ /\ mode = "loader" /\ pc = "returned"
          /\ reports # <<>> /\ Last(reports).operation_desc = "Download Failed"
       \/ mode = "publisher" /\ pc = "raised" /\ exc.type = "HTTPError"

\* UploadFailed: the loader reports "Download Failed" with the text of the upload's
\* response; in the publisher WebDAVException leaves execute
EndsUploadFailed ==
    \/ /\ mode = "loader" /\ pc = "returned" /\ put_status >= 400
       /\ reports # <<>> /\ Last(reports).operation_desc = "Download Failed"
       /\ Last(reports).error = ResponseText(put_status)
    \/ mode = "publisher" /\ pc = "raised" /\ exc.type = "WebDAVException"

\* the publisher has reported MissingMetadataException and returned before any request
EndsMetadataMissing ==
    /\ mode = "publisher" /\ pc = "returned" /\ exc = NoExc
    /\ log = <<>>
    /\ reports # <<>> /\ Last(reports).error # <<>>
    /\ Last(reports).error[1] = "MissingMetadataException"

\* the publisher has uploaded the file and deploy has raised
EndsDeployFailed ==
    /\ mode = "publisher" /\ pc = "raised" /\ exc.type = "DeployError"
    /\ put_status # 0 /\ put_status < 400
    /\ deployed # <<>>

Count(b) == IF b THEN 1 ELSE 0

FailedProbes == {i \in LogIndexes("HEAD") : log[i].status = NoAnswer}

\* the errors other than those of the probes end the run, made known once and with a
\* message: the exception that leaves execute, or the error of the last report
ErrorsEndTheRun ==
    /\ \A i \in 1..Len(log) :
          (log[i].method = "MKCOL" /\ FailedRequest(log[i])) =>
              /\ i = Len(log)
              /\ exc = WebDAVException("MKCOL", log[i].url, log[i].status)
    /\ (mode = "publisher" /\ put_status >= 400 /\ pc # "pub_check") =>
          exc = WebDAVException("PUT", path, put_status)
    /\ exc # NoExc =>
          /\ pc = "raised"
          /\ exc.type # ""
          /\ FailureNotices = 1
    /\ pc = "raised" => exc # NoExc
    /\ \A i \in 1..Len(reports) :
          reports[i].error # <<>> =>
              /\ i = Len(reports)
              /\ pc = "returned"
              /\ FailureNotices = 1

UploadSteps == {"upload", "dirs", "mkcol", "put", "put_body", "pub_check", "pub_deploy"}

\* s is the beginning of t
IsPrefix(s, t) == Len(s) <= Len(t) /\ s = SubSeq(t, 1, Len(s))

\* C14: download and upload are sequential and keep the order of the bytes: the
\* publisher issues no HEAD, MKCOL or PUT before the last chunk of the source response
\* is appended to the buffer, and what a transfer (publisher or loader) sends to the
\* target is, chunk after chunk, the beginning of what it received from the source and,
\* once the upload is answered, all of it in the same order.
C14_SequentialOrderPreserving ==
    /\ mode = "publisher" =>
          /\ (UploadCalls # {} \/ pc \in UploadSteps) =>
                /\ rx = RangeLen(Len(src), chunk_size)
                /\ data = src
          /\ IsPrefix(Flatten(body), src)
          /\ put_status # 0 => Flatten(body) = src
          /\ target.exists => target.content = src
    /\ mode = "loader" =>
          /\ IsPrefix(Flatten(body), src)
          /\ put_status # 0 => Flatten(body) = src
          /\ (put_status # 0 /\ put_status < 400) => target.content = src

C14_Witness ==
    /\ mode = "publisher" /\ pc = "pub_deploy"
    /\ src = <<0, 1, 1>>
    /\ chunk_size = 1
    /\ rx = 3 /\ Len(body) = 3
    /\ target.content = <<0, 1, 1>>
    /\ LogIndexes("MKCOL") # {}

\* the progress updates: the reports made with operation="wait", an entity count and
\* a clock symbol (publisher.py:232-238, utils.py:360-366)
ProgressIndexes(desc) == {i \in 1..Len(reports) : reports[i].operation_desc = desc}

\* n is the number of chunks of size c a body of length len comes in
IsChunkCount(n, len, c) == n * c >= len /\ (n = 0 \/ (n - 1) * c < len)

\* default_value of the plugin parameter chunk_size: 1 MiB
DefaultChunkSize == 1048576

\* the upload begins: upload_file_with_context is called, no byte is sent yet
UploadBegins == mode = "publisher" /\ pc \in {"upload", "dirs", "mkcol", "put"}

\* C15: a download that comes in n chunks (n = 10 for a body of 10 MiB and a chunk size
\* of 1 MiB) makes exactly n progress updates ("Get graph stream"), one for each chunk
\* received and in their order, all of them before the upload begins and none after;
\* they stand between the "Started deploy of version" report and the "Uploading file
\* to" report, which the same sink gets without a count.
C15_OneCallbackPerChunkReceived ==
    /\ IsChunkCount(10, 10 * DefaultChunkSize, DefaultChunkSize)
    /\ RangeLen(10 * DefaultChunkSize, DefaultChunkSize) = 10
    /\ (mode = "publisher" /\ pc = "pub_recv") =>
          /\ Cardinality(ProgressIndexes("Get graph stream")) = rx
          /\ Len(reports) = rx + 1
    /\ (mode = "publisher" /\ pc \in UploadSteps) =>
          /\ IsChunkCount(Cardinality(ProgressIndexes("Get graph stream")),
                          Len(src), chunk_size)
          /\ ProgressIndexes("Get graph stream") = 2..(rx + 1)
          /\ \A i \in 2..(rx + 1) : reports[i].arg = <<get_clock(i - 2)>>
          /\ reports[1].operation_desc = "Started deploy of version"
          /\ reports[rx + 2].operation_desc = "Uploading file to"
    /\ UploadBegins =>
          /\ Len(reports) = rx + 2
          /\ ProgressIndexes("Uploading File") = {}

C15_Witness ==
    /\ UploadBegins /\ pc = "put"
    /\ Len(src) = 3 /\ chunk_size = 1
    /\ Cardinality(ProgressIndexes("Get graph stream")) = 3
    /\ Len(reports) = 5

\* the bytes the chunk iterator has yielded before its k-th chunk (k from 1)
EmittedBefore(k) == Len(Flatten(SubSeq(body, 1, k - 1)))

\* the chunk iterator reports once for each chunk, at the next() that yields it, with
\* the operation label and the clock symbol of the chunk's index
ReportsGoWithChunks ==
    /\ Len(reports) = Len(body)
    /\ Len(body) = gen_i
    /\ \A k \in 1..Len(reports) :
          /\ reports[k].operation_desc = "Uploading File"
          /\ reports[k].arg = <<get_clock(k - 1)>>
          /\ reports[k].error = <<>>
          /\ EmittedBefore(k) = (k - 1) * chunk_size

\* C16 as stated: the chunk iterator calls the progress sink exactly once for each
\* chunk, before the chunk is yielded and not before the chunk in front of it was
\* consumed, and the k-th call carries the number of bytes emitted so far, the operation
\* label and the clock symbol of the chunk's index.
C16_ReportCarriesBytesEmitted ==
    mode = "iter" =>
        /\ ReportsGoWithChunks
        /\ \A k \in 1..Len(reports) : reports[k].entity_count = EmittedBefore(k)

\* C16, amended: the chunk iterator calls the progress sink exactly once for each
\* chunk, before the chunk is yielded and not before the chunk in front of it was
\* consumed, and the k-th call carries the operation label, the clock symbol of the
\* chunk's index, and the bytes emitted so far counted in whole millions:
\* (index * chunksize) // 1000000, which is 0 until a million bytes are out.
C16_ReportCarriesMillionsEmitted ==
    /\ mode = "iter" =>
          /\ ReportsGoWithChunks
          /\ \A k \in 1..Len(reports) :
                reports[k].entity_count = EmittedBefore(k) \div Million
    /\ \A i \in 0..MaxLen :
          /\ ChunkReport("Uploading File", i, Million \div 2).entity_count = i \div 2
          /\ ChunkReport("Uploading File", i, Million).entity_count = i
          /\ ChunkReport("Uploading File", i, DefaultChunkSize).entity_count = i

C16_Witness ==
    /\ mode = "iter" /\ pc = "returned"
    /\ chunk_size = 1
    /\ Len(reports) = 3
    /\ EmittedBefore(3) = 2
    /\ reports[3].entity_count = 0

\* C17: for every integer n >= 0, get_clock(n) returns, without an error, one of the 10
\* fixed symbols, the one n mod 10 selects, so that get_clock(n) = get_clock(n + 10).
C17_ClockIsPeriodic ==
    /\ Len(ClockSymbols) = 10
    /\ Cardinality({ClockSymbols[i] : i \in 1..Len(ClockSymbols)}) = 10
    /\ (mode = "clock" /\ pc = "returned") =>
          /\ result.raised = ""
          /\ result.value = ClockSymbols[(args[1] % 10) + 1]
          /\ result.value = get_clock(args[1] + 10)

C17_Witness ==
    /\ mode = "clock" /\ pc = "returned"
    /\ args = <<109>>
    /\ result = [raised |-> "", value |-> "11:00"]

\* C18: the chunk size of a transfer is greater than 0: no execute, and so no download
\* step (iter_content(chunk_size=self.chunk_size)) and no upload step
\* (upload_file_with_context(chunk_size=self.chunk_size)), runs on a plugin whose
\* chunk_size is 0 or negative.
C18_ChunkSizePositive ==
    (mode = "ctor" /\ pc = "executing") => chunk_size > 0

\* the number a sequence of digit characters stands for
RECURSIVE DigitsValue(_)
DigitsValue(s) ==
    IF s = <<>> THEN 0
    ELSE DigitsValue(SubSeq(s, 1, Len(s) - 1)) * 10 + int(Last(s))

\* v is the date written YYYY.MM.DD
IsDateWritten(v, date) ==
    /\ Len(v) = 10
    /\ v[5] = "." /\ v[8] = "."
    /\ \A i \in {1, 2, 3, 4, 6, 7, 9, 10} : IsDigit(v[i])
    /\ DigitsValue(SubSeq(v, 1, 4)) = date.year
    /\ DigitsValue(SubSeq(v, 6, 7)) = date.month
    /\ DigitsValue(SubSeq(v, 9, 10)) = date.day

\* C19: if the configured version is omitted (empty, or spaces only), the publisher's
\* execute sets self.version to the current date written YYYY.MM.DD; it does so in
\* execute (the constructed plugin still has the version as configured), a version that
\* is not blank is left as it is, and the version so set is the one in the target path
\* and in the version id that is deployed.
C19_BlankVersionBecomesToday ==
    [][mode = "publisher" =>
          /\ (pc = "pub_version" /\ IsBlank(version)) =>
                /\ version \in {<<>>, <<" ">>, <<" ", " ">>}
                /\ IsDateWritten(version', today)
          /\ (pc = "pub_version" /\ ~IsBlank(version)) => version' = version
          /\ pc # "pub_version" => version' = version
          /\ path' # <<>> => path' = <<Group, Artifact, version', PublisherFile>>
          /\ \A i \in 1..Len(deployed') :
                deployed'[i] = <<DatabusBase, User, Group, Artifact, version'>>]_vars

C19_Witness ==
    /\ mode = "publisher" /\ pc = "returned"
    /\ today = [year |-> 2027, month |-> 1, day |-> 31]
    /\ version = <<"2", "0", "2", "7", ".", "0", "1", ".", "3", "1">>
    /\ Len(warnings) = 1
    /\ HasReport("Deployment Successful")
    /\ path = file_target_path(version)
    /\ deployed = <<version_id(version)>>

\* C20: fetch_query_result_by_key raises no error and returns an empty list when the
\* key asked for is absent from the bindings of the SPARQL result (from all of them, or
\* from some: one binding without the key empties the whole list); when the key is in
\* every binding it returns the values of the key in the order of the bindings.
C20_AbsentKeyGivesEmptyList ==
    (mode = "sparql" /\ pc = "returned") =>
        LET bindings == args[1]
            key == args[2]
        IN  /\ result.raised = ""
            /\ (\E i \in 1..Len(bindings) : key \notin DOMAIN bindings[i]) =>
                  result.value = <<>>
            /\ (\A i \in 1..Len(bindings) : key \in DOMAIN bindings[i]) =>
                  result.value = [i \in 1..Len(bindings) |-> bindings[i][key].value]

C20_Witness ==
    /\ mode = "sparql" /\ pc = "returned"
    /\ args[2] = "file"
    /\ Len(args[1]) = 2
    /\ DOMAIN args[1][1] = {"acc", "file"}
    /\ DOMAIN args[1][2] = {"acc"}
    /\ result = [raised |-> "", value |-> <<>>]

\* C21: when a loader execute has returned after a source GET that succeeded (status
\* below 400), the resource upload was made, and its status decides the outcome: below
\* 400 the target resource exists and the last report is 'Download Successful' with an
\* entity count of 1 and no error; from 400 on the last report is 'Download Failed'
\* with the text of the upload response as its error.
C21_UploadStatusDecidesLoad ==
    (mode = "loader" /\ pc = "returned" /\ get_status < 400) =>
        /\ Len(OfMethod(log, "POST")) = 1
        /\ Last(log) = Request("POST", ResourceUrl, put_status)
        /\ Len(reports) = 1
        /\ IF put_status < 400
           THEN /\ target.exists
                /\ Last(reports) = Report("Download Successful", <<>>, 1, <<>>)
           ELSE Last(reports) =
                    Report("Download Failed", <<>>, 0, ResponseText(put_status))

C21_Witness ==
    /\ mode = "loader" /\ pc = "returned"
    /\ get_status = 200
    /\ put_status = 400
    /\ Len(src) = MaxLen
    /\ Last(reports) = Report("Download Failed", <<>>, 0, ResponseText(400))

\* s contains sub
Contains(s, sub) == \E i \in 0..(Len(s) - Len(sub)) : SubSeq(s, i + 1, i + Len(sub)) = sub

\* the positions of the resources whose full path contains the term
Matching(resources, term) == {i \in 1..Len(resources) : Contains(resources[i].fullPath, term)}

\* the suggestions are the resources at the positions of keep, in their order, each
\* with its full path as value and its name as label
IsSelection(suggestions, resources, keep) ==
    \E f \in [1..Len(suggestions) -> keep] :
        /\ \A i, j \in 1..Len(suggestions) : i < j => f[i] < f[j]
        /\ \A k \in keep : \E i \in 1..Len(suggestions) : f[i] = k
        /\ \A i \in 1..Len(suggestions) :
              suggestions[i] = Autocompletion(resources[f[i]].fullPath, resources[f[i]].name)

\* C22: ResourceParameterType.autocomplete raises nothing and returns every resource of
\* the project when there is no query term; with query terms, when no full path
\* contains the first term it returns exactly one suggestion whose value is that term
\* (labelled as a new resource), and otherwise exactly the resources whose full path
\* contains the first term, in the order of the project.
C22_ResourceCompletion ==
    (mode = "resource" /\ pc = "returned") =>
        LET query_terms == args[1]
            resources == args[2]
        IN  /\ result.raised = ""
            /\ query_terms = <<>> =>
                  IsSelection(result.value, resources, 1..Len(resources))
            /\ (query_terms # <<>> /\ Matching(resources, query_terms[1]) = {}) =>
                  /\ Len(result.value) = 1
                  /\ result.value[1].value = query_terms[1]
                  /\ result.value[1].label = query_terms[1] \o <<" (New resource)">>
            /\ (query_terms # <<>> /\ Matching(resources, query_terms[1]) # {}) =>
                  IsSelection(result.value, resources, Matching(resources, query_terms[1]))

C22_Witness ==
    /\ mode = "resource" /\ pc = "returned"
    /\ args[1] = <<<<"z">>, <<"a">>>>
    /\ Len(args[2]) = MaxItems
    /\ Len(result.value) = 1
    /\ result.value[1].value = <<"z">>

\* how often the value v is among the values of the list l
Occurrences(l, v) == Cardinality({i \in 1..Len(l) : l[i] = v})

\* C23: FacetSearch.autocomplete raises nothing and returns, each with itself as label
\* and as often as the facet lists it, exactly the option values of its facet that
\* contain the first query term (all of them when there is no query term, none when no
\* value contains the term), in descending order of the strings for the facet
\* 'version' and in ascending order for the other facet.
C23_FacetCompletion ==
    (mode = "facet" /\ pc = "returned") =>
        LET facet_option == args[1]
            query_terms == args[2]
            options == args[3][facet_option]
            values == [i \in 1..Len(result.value) |-> result.value[i].value]
        IN  /\ result.raised = ""
            /\ \A i \in 1..Len(result.value) : result.value[i].label = values[i]
            /\ \A v \in VersionValues \cup FormatValues :
                  Occurrences(values, v) =
                      IF query_terms = <<>> \/ Contains(v, query_terms[1])
                      THEN Occurrences(options, v)
                      ELSE 0
            /\ \A i, j \in 1..Len(values) :
                  i < j => IF facet_option = "version"
                           THEN ~StrLess(values[i], values[j])
                           ELSE ~StrLess(values[j], values[i])

C23_Witness ==
    /\ mode = "facet" /\ pc = "returned"
    /\ args[1] = "version"
    /\ args[2] = <<<<"1">>>>
    /\ args[3]["version"] = <<<<"1", "2">>, <<"1", "2", ".", "1">>>>
    /\ result.value = <<Autocompletion(<<"1", "2", ".", "1">>, <<"1", "2", ".", "1">>),
                        Autocompletion(<<"1", "2">>, <<"1", "2">>)>>

\* the distributions of the catalogue that the dependent values select
Selected(catalogue, depend) ==
    SelectSeq(catalogue, LAMBDA d : d.version = depend[4] /\ d.format = depend[3])

\* the result is one suggestion per selected distribution, valued with its file, and
\* it is the result of the call with any other query terms
OnePerFileWhateverTheTerms ==
    LET depend == args[2]
        catalogue == args[3]
        found == Selected(catalogue, depend)
    IN  /\ result.raised = ""
        /\ Len(result.value) = Len(found)
        /\ \A i \in 1..Len(found) : result.value[i].value = <<found[i].file>>
        /\ \A q \in FileTerms : DatabusFileSuggestions(q, depend, catalogue) = result
        /\ (\A i \in 1..Len(catalogue) : catalogue[i].format # depend[3]) =>
              result.value = <<>>

\* what holds of DatabusFile.autocomplete: the claim's statement on the artifacts whose
\* selected distributions all have a byte size, and the independence of the query
\* terms on every artifact
FileCompletionWhereSizeBound ==
    (mode = "file" /\ pc = "returned") =>
        /\ (\A i \in 1..Len(Selected(args[3], args[2])) :
               Selected(args[3], args[2])[i].byteSize # <<>>) => OnePerFileWhateverTheTerms
        /\ \A q \in FileTerms : DatabusFileSuggestions(q, args[2], args[3]) = result

\* C24: DatabusFile.autocomplete returns one suggestion per file found for the given
\* base URL, artifact, format and version, whatever the query terms are (the same
\* result for the same dependent values and other query terms), and an empty list for
\* a format that no file has.
C24_FileCompletionIgnoresTerms ==
    (mode = "file" /\ pc = "returned") => OnePerFileWhateverTheTerms

\* the requests of the directory ensurer in the log
DirRequests == {i \in 1..Len(log) : log[i].method \in {"HEAD", "MKCOL"}}

\* the probe at position i of the log came back as "absent"
ProbedAbsent(i) == log[i].method = "HEAD" /\ ~check_existence(log[i].status)

\* C25: the directory ensurer walks the prefixes of the directory path from left to
\* right: its k-th probe (HEAD) is for the prefix of k segments, a MKCOL always comes
\* directly after the probe of the same prefix and only when that probe came back as
\* absent, a probe that came back as absent is followed by the MKCOL of its prefix
\* before anything else, and no request for a prefix comes after a request for a longer
\* one.
C25_PrefixesLeftToRight ==
    (mode = "upload" /\ create_parent_dirs) =>
        /\ \A k \in 1..Len(OfMethod(log, "HEAD")) :
              OfMethod(log, "HEAD")[k].url = DirUrl(SubSeq(DirSegments, 1, k))
        /\ \A i \in LogIndexes("MKCOL") :
              /\ i > 1
              /\ ProbedAbsent(i - 1)
              /\ log[i - 1].url = log[i].url
        /\ \A i \in LogIndexes("HEAD") :
              ProbedAbsent(i) =>
                  IF i = Len(log) THEN pc = "mkcol"
                  ELSE log[i + 1].method = "MKCOL" /\ log[i + 1].url = log[i].url
        /\ \A i, j \in DirRequests : i < j => Len(log[i].url) <= Len(log[j].url)
        /\ \A i \in DirRequests, j \in 1..Len(log) : log[j].method = "PUT" => i < j

C25_Witness ==
    /\ mode = "upload" /\ create_parent_dirs
    /\ pc = "returned"
    /\ Len(DirSegments) = MaxDepth
    /\ Urls(log) = <<DirUrl(SubSeq(DirSegments, 1, 1)),
                     DirUrl(SubSeq(DirSegments, 1, 2)), DirUrl(SubSeq(DirSegments, 1, 2)),
                     DirUrl(DirSegments), DirUrl(DirSegments), path>>
    /\ log[2].status = NoAnswer
    /\ log[4].status = 404

\* the chunks yielded so far are full, and once the iterator has stopped there are
\* ceil(len(B)/c) of them, the last one with 1 to c bytes, and none and no progress
\* update for an empty buffer
ChunksCutBySize ==
    /\ \A k \in 1..(Len(body) - 1) : Len(body[k]) = chunk_size
    /\ \A k \in 1..Len(body) : Len(body[k]) \in 1..chunk_size
    /\ Len(body) * chunk_size < Len(data) + chunk_size
    /\ pc = "returned" =>
          /\ IsChunkCount(Len(body), Len(data), chunk_size)
          /\ Len(body) = (Len(data) + chunk_size - 1) \div chunk_size
          /\ gen = "done"
    /\ data = <<>> => body = <<>> /\ reports = <<>>

\* C26: with a chunk size c > 0 the chunk iterator yields a finite sequence and stops
\* when the buffer B is exhausted: a consumer that keeps asking reaches the end of the
\* iteration, having been given exactly ceil(len(B)/c) chunks, each but the last of
\* exactly c bytes and the last of 1 to c bytes; an empty buffer gives no chunk and
\* no progress update.
C26_FiniteChunking ==
    /\ []((mode = "iter" /\ chunk_size > 0) => ChunksCutBySize)
    /\ (mode = "iter" /\ chunk_size > 0) ~> (pc = "returned" /\ gen = "done")

C26_Witness ==
    /\ mode = "iter" /\ pc = "returned" /\ gen = "done"
    /\ chunk_size = MaxChunk
    /\ Len(data) = MaxLen
    /\ Len(body) = (MaxLen + MaxChunk - 1) \div MaxChunk
    /\ Len(reports) = Len(body)

\* the prefixes whose MKCOL in the log was answered with "created"
CreatedByCall ==
    {SubSeq(DirSegments, 1, k) : k \in
        {i \in 1..Len(DirSegments) :
            \E j \in LogIndexes("MKCOL") :
                log[j].url = DirUrl(SubSeq(DirSegments, 1, i)) /\ MkcolCreates(log[j].status)}}

\* C27: the directory ensurer takes nothing back. Every step of an upload call keeps
\* the directories the server has and adds at most the prefix whose MKCOL was just
\* answered with "created"; the call sends HEAD, MKCOL and PUT requests only (no DELETE
\* or other compensating request); and once the ensurer has failed at a prefix the call
\* does nothing more, so that the server is left with the directories it had before
\* the call plus the prefixes created in it.
C27_NoRollback ==
    [][ mode = "upload" =>
          /\ dirs \subseteq dirs'
          /\ dirs' \ dirs \subseteq
                {d \in CreatedByCall' : Last(log').url = DirUrl(d) /\ Len(log') = Len(log) + 1}
          /\ CreatedByCall' \subseteq dirs'
          /\ \A i \in 1..Len(log') : log'[i].method \in {"HEAD", "MKCOL", "PUT"}
          /\ pc # "raised"
      ]_vars

C27_Witness ==
    /\ mode = "upload" /\ pc = "raised"
    /\ exc = WebDAVException("MKCOL", DirUrl(DirSegments), 403)
    /\ Len(DirSegments) = MaxDepth
    /\ Cardinality(CreatedByCall) = MaxDepth - 1
    /\ CreatedByCall \subseteq dirs
    /\ Last(log).method = "MKCOL"

\* deploy was called
DeployCalled == deployed # <<>>

\* the directory creation failed: a MKCOL came back with a status that raises
DirsFailed == \E i \in LogIndexes("MKCOL") : ~DirStatusOk(log[i].status)

\* what holds of the publisher: deploy is called only after the PUT of the file came
\* back with a status below 400, and never in a run in which the GET raised, the
\* directory creation failed or the PUT failed
DeployOnlyAfterUpload ==
    mode = "publisher" =>
        /\ DeployCalled =>
              /\ put_status \in 1..399
              /\ \E i \in LogIndexes("PUT") : log[i].status = put_status /\ log[i].url = path
              /\ HasReport("WebDAV Upload Successful")
        /\ (exc.type = "HTTPError" \/ DirsFailed \/ put_status >= 400) => ~DeployCalled

\* C28: publisher execute calls deploy only after the WebDAV PUT of the file came back
\* with a status below 400, and in no run in which the download (a GET answered with a
\* status from 400 on), the directory creation or the PUT failed.
C28_DeployOnlyAfterAllSucceeded ==
    /\ DeployOnlyAfterUpload
    /\ (mode = "publisher" /\ get_status >= 400) => ~DeployCalled

\* the metadata of the task lacks the graph, the label or the description, or its
\* label or description is blank (nothing but whitespace)
MetadataLacking(m) ==
    \/ m.graph = <<>> \/ m.label = <<>> \/ m.description = <<>>
    \/ \A i \in 1..Len(m.label[1]) : m.label[1][i] \in Whitespace
    \/ \A i \in 1..Len(m.description[1]) : m.description[1][i] \in Whitespace

\* the run is beyond the fetch of the metadata
MetadataFetched ==
    pc \notin {"pub_version", "pub_metadata"}

\* C29: when the metadata of the source task lacks the graph URI, the label or the
\* description, or the label or the description is blank, publisher execute reports
\* the message of MissingMetadataException as the error and returns, and the run has
\* issued no request (no graph download, no HEAD, MKCOL or PUT) and no deploy call;
\* with complete metadata it reports no such error and goes on to the download.
C29_MissingMetadataEndsRun ==
    (mode = "publisher" /\ Len(args) = 1 /\ MetadataFetched) =>
        IF MetadataLacking(args[1])
        THEN /\ pc = "returned"
             /\ Len(reports) = 2
             /\ Last(reports).error[1] = "MissingMetadataException"
             /\ Last(reports).error[2] \in {"graph", "label", "description"}
             /\ log = <<>>
             /\ deployed = <<>>
             /\ exc = NoExc
             /\ target = NoTarget
        ELSE /\ \A i \in 1..Len(reports) : reports[i].error = <<>>
             /\ log # <<>> \/ pc = "pub_get"

C29_Witness ==
    /\ mode = "publisher" /\ Len(args) = 1 /\ pc = "returned"
    /\ args[1].graph = <<"g">>
    /\ args[1].label = <<<<"t">>>>
    /\ args[1].description = <<<<" ">>>>
    /\ Last(reports).error = <<"MissingMetadataException", "description">>
    /\ log = <<>>

\* the instance was configured with a blank version
ConfiguredBlank == mode = "publisher" /\ Len(args) = 2 /\ IsBlank(args[2])

\* what holds of an instance configured with a blank version: its first execute uses
\* the date of its day and records the warning; every later execute finds the date of
\* the first one as the stored version, uses it whatever the day is, and records no
\* warning
VersionFixedByFirstExecute ==
    ConfiguredBlank =>
        IF result.value = <<>>
        THEN IF pc = "pub_version"
             THEN IsBlank(version) /\ warnings = <<>>
             ELSE version = strftime(today) /\ Len(warnings) = 1
        ELSE /\ version = strftime(result.value[1].today)
             /\ warnings = <<>>
             /\ \A i \in 1..Len(deployed) : deployed[i] = version_id(version)

\* C30: a publisher instance configured with a blank version publishes at every
\* execute under the date of that execute: when an execute starts the stored version is
\* still blank, and past its first step the version in use is the date of the day of
\* this execute and the 'Version not hardcoded, automatically set' warning is recorded
\* once, in the first execute and in the one that follows it on another day.
C30_EveryExecuteUsesItsDate ==
    ConfiguredBlank =>
        IF pc = "pub_version"
        THEN IsBlank(version)
        ELSE /\ version = strftime(today)
             /\ Len(warnings) = 1
             /\ warnings[1].value = strftime(today)


====
